---- MODULE Spec2Model ----
(***************************************************************************)
(* SchemaForge.ai backend: the natural-language parser's normalizer        *)
(* (aiService.js), the three generators (schemaService.js, apiService.js,  *)
(* erdService.js) and the generateSchema request handler that runs them    *)
(* (schemaController.js).                                                  *)
(*                                                                         *)
(* JavaScript values are encoded as follows.                               *)
(*   - a possibly missing array (parsedData.entities,                      *)
(*     parsedData.relationships, entity.fields) is Undefined, Null or      *)
(*     Arr(s) for a sequence s;                                            *)
(*   - an optional scalar (a description, a constraint) is None == <<>>    *)
(*     when absent and Some(v) == <<v>> when present;                      *)
(*   - an object whose keys are assigned in a loop (properties, paths,     *)
(*     example) is a sequence of <<key, value>> pairs in insertion order,  *)
(*     written with ObjSet, which replaces the value of an existing key    *)
(*     in place as JavaScript does;                                        *)
(*   - text built line by line is a sequence of records, one per appended  *)
(*     line, holding the interpolated parts of the line.                   *)
(***************************************************************************)
EXTENDS Integers, Sequences, FiniteSets, TLC

VARIABLES pc, request, parsedData, jsonSchema, apiEndpoints, erdDiagram,
          alternativeDiagrams, response, clock,
          model, calls, document, conversion, validation,
          serverStatus, healthCheckInterval, call, healthPing,
          dateNow, lastActivityTime, requestCount, healthReply,
          body, reply

\* the request handler's variables
handlerVars == <<pc, request, parsedData, jsonSchema, apiEndpoints, erdDiagram,
                 alternativeDiagrams, response>>

\* the variables of direct calls of the services
serviceVars == <<model, calls, document, conversion, validation>>

\* the frontend's server-status tracker (api.ts)
clientVars == <<serverStatus, healthCheckInterval, call, healthPing>>

\* the health router's module variables and its last answer (health.js)
healthVars == <<dateNow, lastActivityTime, requestCount, healthReply>>

\* the standalone handlers POST /api-endpoints and POST /erd
routeVars == <<body, reply>>

\* what the generateSchema flow and the direct service calls never touch
restVars == <<clientVars, healthVars, routeVars>>

vars == <<pc, request, parsedData, jsonSchema, apiEndpoints, erdDiagram,
          alternativeDiagrams, response, clock,
          model, calls, document, conversion, validation,
          serverStatus, healthCheckInterval, call, healthPing,
          dateNow, lastActivityTime, requestCount, healthReply,
          body, reply>>

(***************************************************************************)
(* Bounds of the model.                                                    *)
(***************************************************************************)
MaxFields == 2

MaxRels == 2

MaxClock == 2

\* the longest sequence of direct generator calls on one model
MaxCalls == 3

(***************************************************************************)
(* JavaScript value helpers.                                               *)
(***************************************************************************)
Undefined == [kind |-> "undefined"]

Null == [kind |-> "null"]

Arr(s) == [kind |-> "array", items |-> s]

IsArray(v) == v.kind = "array"

None == <<>>

Some(v) == <<v>>

\* truthiness of an optional string: '' and undefined are falsy
TruthyStr(o) == o # None /\ o[1] # ""

\* truthiness of an optional number: 0 and undefined are falsy
TruthyNum(o) == o # None /\ o[1] # 0

\* truthiness of an optional boolean
TruthyBool(o) == o # None /\ o[1]

\* a || b for optional strings, b a plain string
OrStr(o, dflt) == IF TruthyStr(o) THEN o[1] ELSE dflt

\* value.key !== undefined, for an object that may lack the property
HasKey(object, key) == key \in DOMAIN object

ObjHas(o, k) == \E i \in DOMAIN o : o[i][1] = k

ObjGet(o, k) == o[CHOOSE i \in DOMAIN o : o[i][1] = k][2]

ObjKeys(o) == [i \in DOMAIN o |-> o[i][1]]

\* o[k] = v on an object with insertion-ordered keys
ObjSet(o, k, v) ==
  IF ObjHas(o, k)
  THEN [i \in DOMAIN o |-> IF o[i][1] = k THEN <<k, v>> ELSE o[i]]
  ELSE Append(o, <<k, v>>)

\* Sequences of length at most n over the set S
SeqUpTo(S, n) == UNION {[1..k -> S] : k \in 0..n}

\* new Date().toISOString() at clock value t
IsoString(t) == "2025-01-01T00:00:0" \o ToString(t) \o ".000Z"

(***************************************************************************)
(* Properties every object literal inherits from Object.prototype, with    *)
(* the text a template literal renders them as.  A lookup map[key] that    *)
(* misses the own keys finds these, and they are truthy.                   *)
(***************************************************************************)
ObjectPrototype ==
  [constructor |-> "function Object() { [native code] }",
   toString |-> "function toString() { [native code] }",
   valueOf |-> "function valueOf() { [native code] }",
   hasOwnProperty |-> "function hasOwnProperty() { [native code] }",
   __proto__ |-> "[object Object]"]

\* map[key] || dflt for an object literal map with truthy own values
LookupOr(map, key, dflt) ==
  IF key \in DOMAIN map THEN map[key]
  ELSE IF key \in DOMAIN ObjectPrototype THEN ObjectPrototype[key]
  ELSE dflt

(***************************************************************************)
(* String conversions.  TLA+ strings cannot be taken apart, so each        *)
(* conversion is the table of its results on the strings of the model;     *)
(* every other string of the model is already in the target case.          *)
(***************************************************************************)
\* String.prototype.toLowerCase on the type tokens that are not lower case
LowerCaseTable ==
  ("String" :> "string") @@ ("TEXT" :> "text") @@ ("Email" :> "email") @@
  ("URL" :> "url") @@ ("Number" :> "number") @@ ("INTEGER" :> "integer") @@
  ("Int" :> "int") @@ ("Float" :> "float") @@ ("DECIMAL" :> "decimal") @@
  ("Double" :> "double") @@ ("Boolean" :> "boolean") @@ ("BOOL" :> "bool") @@
  ("Date" :> "date") @@ ("DateTime" :> "datetime") @@
  ("TIMESTAMP" :> "timestamp") @@ ("Array" :> "array") @@
  ("JSON" :> "json") @@ ("Object" :> "object") @@ ("Bogus" :> "bogus") @@
  ("Constructor" :> "constructor") @@ ("toString" :> "tostring")

toLowerCase(s) == IF s \in DOMAIN LowerCaseTable THEN LowerCaseTable[s] ELSE s

\* String.prototype.toUpperCase on the entity and table names
UpperCaseTable ==
  ("account" :> "ACCOUNT") @@ ("accounts" :> "ACCOUNTS") @@
  ("article" :> "ARTICLE") @@ ("articles" :> "ARTICLES") @@
  ("author" :> "AUTHOR") @@ ("authors" :> "AUTHORS") @@ ("blog" :> "BLOG") @@
  ("blogs" :> "BLOGS") @@ ("book" :> "BOOK") @@ ("books" :> "BOOKS") @@
  ("categorie" :> "CATEGORIE") @@ ("categories" :> "CATEGORIES") @@
  ("category" :> "CATEGORY") @@ ("categorys" :> "CATEGORYS") @@
  ("client" :> "CLIENT") @@ ("clients" :> "CLIENTS") @@
  ("customer" :> "CUSTOMER") @@ ("customers" :> "CUSTOMERS") @@
  ("item" :> "ITEM") @@ ("items" :> "ITEMS") @@ ("order" :> "ORDER") @@
  ("orders" :> "ORDERS") @@ ("post" :> "POST") @@ ("posts" :> "POSTS") @@
  ("product" :> "PRODUCT") @@ ("products" :> "PRODUCTS") @@
  ("profile" :> "PROFILE") @@ ("profiles" :> "PROFILES") @@
  ("purchase" :> "PURCHASE") @@ ("purchases" :> "PURCHASES") @@
  ("tag" :> "TAG") @@ ("tags" :> "TAGS") @@ ("user" :> "USER") @@
  ("users" :> "USERS") @@ ("users/{id}/orders" :> "USERS/{ID}/ORDERS")

toUpperCase(s) == UpperCaseTable[s]

\* s.charAt(0).toUpperCase() + s.slice(1) on the entity names
CapitalizeTable ==
  ("account" :> "Account") @@ ("article" :> "Article") @@
  ("author" :> "Author") @@ ("blog" :> "Blog") @@ ("book" :> "Book") @@
  ("categorie" :> "Categorie") @@ ("category" :> "Category") @@
  ("client" :> "Client") @@ ("customer" :> "Customer") @@
  ("item" :> "Item") @@ ("order" :> "Order") @@ ("post" :> "Post") @@
  ("product" :> "Product") @@ ("profile" :> "Profile") @@
  ("purchase" :> "Purchase") @@ ("tag" :> "Tag") @@ ("user" :> "User")

Capitalize(s) == CapitalizeTable[s]

\* the keyword list of basicParsing, in its order
entityPatterns ==
  <<"user", "users", "customer", "customers", "client", "clients", "product",
    "products", "item", "items", "order", "orders", "purchase", "purchases",
    "profile", "profiles", "account", "accounts", "book", "books", "author",
    "authors", "post", "posts", "article", "articles", "blog", "category",
    "categories", "tag", "tags">>

\* pattern.endsWith('s') ? pattern.slice(0, -1) : pattern
SingularTable ==
  ("user" :> "user") @@ ("users" :> "user") @@ ("customer" :> "customer") @@
  ("customers" :> "customer") @@ ("client" :> "client") @@
  ("clients" :> "client") @@ ("product" :> "product") @@
  ("products" :> "product") @@ ("item" :> "item") @@ ("items" :> "item") @@
  ("order" :> "order") @@ ("orders" :> "order") @@
  ("purchase" :> "purchase") @@ ("purchases" :> "purchase") @@
  ("profile" :> "profile") @@ ("profiles" :> "profile") @@
  ("account" :> "account") @@ ("accounts" :> "account") @@
  ("book" :> "book") @@ ("books" :> "book") @@ ("author" :> "author") @@
  ("authors" :> "author") @@ ("post" :> "post") @@ ("posts" :> "post") @@
  ("article" :> "article") @@ ("articles" :> "article") @@
  ("blog" :> "blog") @@ ("category" :> "category") @@
  ("categories" :> "categorie") @@ ("tag" :> "tag") @@ ("tags" :> "tag")

\* pattern.endsWith('s') ? pattern : pattern + 's'
PluralTable ==
  ("user" :> "users") @@ ("users" :> "users") @@
  ("customer" :> "customers") @@ ("customers" :> "customers") @@
  ("client" :> "clients") @@ ("clients" :> "clients") @@
  ("product" :> "products") @@ ("products" :> "products") @@
  ("item" :> "items") @@ ("items" :> "items") @@ ("order" :> "orders") @@
  ("orders" :> "orders") @@ ("purchase" :> "purchases") @@
  ("purchases" :> "purchases") @@ ("profile" :> "profiles") @@
  ("profiles" :> "profiles") @@ ("account" :> "accounts") @@
  ("accounts" :> "accounts") @@ ("book" :> "books") @@
  ("books" :> "books") @@ ("author" :> "authors") @@
  ("authors" :> "authors") @@ ("post" :> "posts") @@ ("posts" :> "posts") @@
  ("article" :> "articles") @@ ("articles" :> "articles") @@
  ("blog" :> "blogs") @@ ("category" :> "categorys") @@
  ("categories" :> "categories") @@ ("tag" :> "tags") @@ ("tags" :> "tags")

(***************************************************************************)
(* The canonical model: Field, Entity, Relationship.                       *)
(* A field's constraints are a record of optional values; a field without  *)
(* a constraints object is the record with every key absent, which every   *)
(* reader (constraints?.key, constraints || {}) treats the same.           *)
(***************************************************************************)
NoConstraints ==
  [primary |-> None, unique |-> None, autoIncrement |-> None,
   maxLength |-> None, minLength |-> None, minimum |-> None,
   maximum |-> None, default |-> None, enum |-> None, pattern |-> None,
   items |-> None]

\* the id field parseNaturalLanguage and basicParsing write
IdField ==
  [name |-> "id", type |-> "number", required |-> TRUE,
   description |-> "Unique identifier",
   constraints |-> [NoConstraints EXCEPT !.primary = Some(TRUE),
                                         !.autoIncrement = Some(TRUE)]]

\* basicParsing's name field of a found entity
BasicNameField(singular) ==
  [name |-> "name", type |-> "string", required |-> TRUE,
   description |-> singular \o " name",
   constraints |-> [NoConstraints EXCEPT !.maxLength = Some(255)]]

\* basicParsing's createdAt / updatedAt fields
BasicStampField(name, description) ==
  [name |-> name, type |-> "date", required |-> TRUE,
   description |-> description,
   constraints |-> [NoConstraints EXCEPT !.default = Some("CURRENT_TIMESTAMP")]]

\* hasIdField: entity.fields.some(field => field.name === 'id')
hasIdField(fields) == \E i \in DOMAIN fields : fields[i].name = "id"

\* a normalizer that pushes the id field instead of unshifting it
AddIdFieldAtEnd(entity) ==
  IF hasIdField(entity.fields.items)
  THEN entity
  ELSE [entity EXCEPT !.fields = Arr(Append(entity.fields.items, IdField))]

\* the forEach of parseNaturalLanguage on one entity: fields.unshift(id field)
AddIdField(entity) ==
  IF hasIdField(entity.fields.items)
  THEN entity
  ELSE [entity EXCEPT !.fields = Arr(<<IdField>> \o entity.fields.items)]

\* the entity basicParsing pushes for a matched pattern
BasicEntity(pattern) ==
  [name |-> SingularTable[pattern],
   tableName |-> PluralTable[pattern],
   description |-> Some(Capitalize(SingularTable[pattern]) \o " entity"),
   fields |-> Arr(<<IdField,
                    BasicNameField(SingularTable[pattern]),
                    BasicStampField("createdAt", "Creation timestamp"),
                    BasicStampField("updatedAt", "Last update timestamp")>>)]

\* the generic entity basicParsing pushes when no pattern matched
GenericItemEntity ==
  [name |-> "item", tableName |-> "items",
   description |-> Some("Generic data item"),
   fields |-> Arr(<<IdField,
                    [name |-> "name", type |-> "string", required |-> TRUE,
                     description |-> "Item name",
                     constraints |-> [NoConstraints EXCEPT !.maxLength = Some(255)]],
                    [name |-> "description", type |-> "string", required |-> FALSE,
                     description |-> "Item description",
                     constraints |-> [NoConstraints EXCEPT !.maxLength = Some(1000)]],
                    BasicStampField("createdAt", "Creation timestamp")>>)]

\* entityPatterns.forEach of basicParsing, from pattern i on, found so far
RECURSIVE FindEntities(_, _, _)
FindEntities(words, i, found) ==
  IF i > Len(entityPatterns) THEN found
  ELSE IF /\ \E w \in DOMAIN words : words[w] = entityPatterns[i]
          /\ ~ \E e \in DOMAIN found : found[e].name = SingularTable[entityPatterns[i]]
       THEN FindEntities(words, i + 1, Append(found, BasicEntity(entityPatterns[i])))
       ELSE FindEntities(words, i + 1, found)

\* basicParsing(description), words == description.toLowerCase().split(/\s+/)
basicParsing(words) ==
  [entities |-> Arr(IF FindEntities(words, 1, <<>>) = <<>>
                    THEN <<GenericItemEntity>>
                    ELSE FindEntities(words, 1, <<>>)),
   relationships |-> Arr(<<>>)]

(***************************************************************************)
(* aiService.js: parseNaturalLanguage.  The outcome of the model call is   *)
(* ai: no API key, an overloaded or other error, a reply that is not       *)
(* JSON, or a reply whose parsed value is ai.data.                         *)
(***************************************************************************)
Ok(v) == [kind |-> "ok", value |-> v]

Error(m) == [kind |-> "error", message |-> m]

\* does the forEach over parsedData.entities run to its end
CanNormalize(data) ==
  /\ IsArray(data.entities)
  /\ \A i \in DOMAIN data.entities.items : IsArray(data.entities.items[i].fields)

\* "Add ID fields to entities that don't have them"
Normalize(data) ==
  [data EXCEPT !.entities =
     Arr([i \in DOMAIN data.entities.items |-> AddIdField(data.entities.items[i])])]

parseNaturalLanguage(words, ai) ==
  CASE ai.kind = "noKey" -> Ok([source |-> "basic", data |-> basicParsing(words)])
    [] ai.kind = "overloaded" ->
         Error("AI service is currently overloaded. Please try again later.")
    [] ai.kind = "error" -> Ok([source |-> "basic", data |-> basicParsing(words)])
    [] ai.kind = "invalidJson" -> Ok([source |-> "basic", data |-> basicParsing(words)])
    [] ai.kind = "reply" ->
         IF CanNormalize(ai.data)
         THEN Ok([source |-> "ai", data |-> Normalize(ai.data)])
         ELSE Ok([source |-> "basic", data |-> basicParsing(words)])

(***************************************************************************)
(* schemaService.js: generateJsonSchema.                                   *)
(***************************************************************************)
\* the type keyword the switch of createFieldSchema sets
JsonSchemaType(t) ==
  CASE t \in {"string", "text"} -> "string"
    [] t = "email" -> "string"
    [] t = "url" -> "string"
    [] t \in {"number", "integer", "int"} -> "integer"
    [] t \in {"float", "decimal", "double"} -> "number"
    [] t \in {"boolean", "bool"} -> "boolean"
    [] t \in {"date", "datetime", "timestamp"} -> "string"
    [] t = "array" -> "array"
    [] t \in {"json", "object"} -> "object"
    [] OTHER -> "string"

\* the format keyword the switch of createFieldSchema sets, if any
JsonSchemaFormat(t) ==
  CASE t = "email" -> Some("email")
    [] t = "url" -> Some("uri")
    [] t \in {"date", "datetime", "timestamp"} -> Some("date-time")
    [] OTHER -> None

createFieldSchema(field) ==
  LET t == toLowerCase(field.type)
      c == field.constraints
      isString == t \in {"string", "text"}
      isNumeric == t \in {"number", "integer", "int", "float", "decimal", "double"}
  IN [description |-> field.description,
      type |-> JsonSchemaType(t),
      format |-> JsonSchemaFormat(t),
      maxLength |-> IF isString /\ TruthyNum(c.maxLength) THEN c.maxLength ELSE None,
      minLength |-> IF isString /\ TruthyNum(c.minLength) THEN c.minLength ELSE None,
      pattern |-> IF isString /\ TruthyStr(c.pattern) THEN c.pattern ELSE None,
      minimum |-> IF isNumeric THEN c.minimum ELSE None,
      maximum |-> IF isNumeric THEN c.maximum ELSE None,
      items |-> IF t = "array" THEN c.items ELSE None,
      default |-> c.default,
      enum |-> c.enum,
      metadata |-> [fieldName |-> field.name, originalType |-> field.type,
                    constraints |-> c]]

\* properties[field.name] = createFieldSchema(field), over the first n fields
RECURSIVE SchemaProperties(_, _)
SchemaProperties(fields, n) ==
  IF n = 0 THEN <<>>
  ELSE ObjSet(SchemaProperties(fields, n - 1), fields[n].name,
              createFieldSchema(fields[n]))

\* required.push(field.name) without the test of field.required
RECURSIVE RequiredNamesUntested(_, _)
RequiredNamesUntested(fields, n) ==
  IF n = 0 THEN <<>>
  ELSE Append(RequiredNamesUntested(fields, n - 1), fields[n].name)

\* required.push(field.name) for the required ones of the first n fields
RECURSIVE RequiredNames(_, _)
RequiredNames(fields, n) ==
  IF n = 0 THEN <<>>
  ELSE IF fields[n].required
       THEN Append(RequiredNames(fields, n - 1), fields[n].name)
       ELSE RequiredNames(fields, n - 1)

createEntitySchema(entity) ==
  [type |-> "object",
   title |-> OrStr(entity.description, entity.name),
   description |-> "Schema for " \o entity.name \o " entity",
   properties |-> SchemaProperties(entity.fields.items, Len(entity.fields.items)),
   required |-> RequiredNames(entity.fields.items, Len(entity.fields.items)),
   additionalProperties |-> FALSE,
   metadata |-> [tableName |-> IF HasKey(entity, "tableName")
                               THEN Some(entity.tableName) ELSE None,
                 entity |-> entity.name]]

\* schemas[entity.name] = createEntitySchema(entity), over the first n entities
RECURSIVE SchemaDefinitions(_, _)
SchemaDefinitions(entities, n) ==
  IF n = 0 THEN <<>>
  ELSE ObjSet(SchemaDefinitions(entities, n - 1), entities[n].name,
              createEntitySchema(entities[n]))

\* relationships || []
OrEmpty(relationships) ==
  IF IsArray(relationships) THEN relationships.items ELSE <<>>

\* the TypeError one entity raises in a generator's entities.forEach, if any;
\* upperCased: does the generator read entity.tableName.toUpperCase() first
EntityFault(entity, upperCased) ==
  IF upperCased /\ ~ HasKey(entity, "tableName")
  THEN Some("Cannot read properties of undefined (reading 'toUpperCase')")
  ELSE IF ~ IsArray(entity.fields)
  THEN Some("Cannot read properties of undefined (reading 'forEach')")
  ELSE IF \E j \in DOMAIN entity.fields.items : ~ HasKey(entity.fields.items[j], "type")
  THEN Some("Cannot read properties of undefined (reading 'toLowerCase')")
  ELSE None

\* the TypeError that ends a generator's try block, if any: the destructuring
\* of a null model, the forEach on a missing list, or the first faulty entity
GeneratorFault(data, upperCased) ==
  IF data \in {Null, Undefined}
  THEN Some("Cannot destructure property 'entities' of 'parsedData' as it is "
              \o data.kind \o ".")
  ELSE IF ~ IsArray(data.entities)
  THEN Some("Cannot read properties of " \o data.entities.kind \o " (reading 'forEach')")
  ELSE IF \E i \in DOMAIN data.entities.items :
            EntityFault(data.entities.items[i], upperCased) # None
  THEN EntityFault(data.entities.items[
         CHOOSE i \in DOMAIN data.entities.items :
           /\ EntityFault(data.entities.items[i], upperCased) # None
           /\ \A k \in 1..(i - 1) :
                EntityFault(data.entities.items[k], upperCased) = None], upperCased)
  ELSE None

\* the fault of generateJsonSchema and of generateApiEndpoints
ShapeFault(data) == GeneratorFault(data, FALSE)

\* the fault of generateErdDiagram, whose Mermaid pass upper-cases tableName
ErdFault(data) == GeneratorFault(data, TRUE)

generateJsonSchema(data, now) ==
  IF ShapeFault(data) # None
  THEN Error("Schema generation failed: " \o ShapeFault(data)[1])
  ELSE Ok([schema |-> "https://json-schema.org/draft/2020-12/schema",
           id |-> "generated-schema",
           title |-> "Generated Schema",
           description |-> "Auto-generated schema from natural language description",
           type |-> "object",
           definitions |-> SchemaDefinitions(data.entities.items,
                                             Len(data.entities.items)),
           relationships |-> OrEmpty(data.relationships),
           metadata |-> [generatedAt |-> IsoString(now),
                         totalEntities |-> Len(data.entities.items),
                         totalRelationships |-> Len(OrEmpty(data.relationships))]])

(***************************************************************************)
(* schemaService.js: convertSchemaFormat.  A document is the generated     *)
(* JSON Schema or a value of another shape; a format is a tagged value,    *)
(* <<"string", token>> or a value that is no string.                       *)
(***************************************************************************)
\* a TypeError that leaves a function uncaught
TypeError(m) == [kind |-> "error", name |-> "TypeError", message |-> m]

\* format.toLowerCase() on the format tokens that are not lower case
FormatLowerCaseTable ==
  ("SQL" :> "sql") @@ ("TypeScript" :> "typescript") @@ ("Mongoose" :> "mongoose")

\* schema.definitions is truthy: a document of the model has an object there
\* or lacks the property
HasDefinitions(schema) == HasKey(schema, "definitions")

\* entitySchema.required?.includes(propName)
IsRequired(entitySchema, propName) ==
  \E i \in DOMAIN entitySchema.required : entitySchema.required[i] = propName

RECURSIVE jsonSchemaToTypeScript(_)
jsonSchemaToTypeScript(schema) ==
  CASE schema.type = "string" -> "string"
    [] schema.type \in {"number", "integer"} -> "number"
    [] schema.type = "boolean" -> "boolean"
    [] schema.type = "array" ->
         (IF HasKey(schema, "items") /\ schema.items # None
          THEN jsonSchemaToTypeScript(schema.items[1]) ELSE "any") \o "[]"
    [] schema.type = "object" -> "object"
    [] OTHER -> "any"

\* the lines convertToTypeScript appends for one definition
TypeScriptInterface(entityName, entitySchema) ==
  <<[kind |-> "interface", text |-> "export interface " \o Capitalize(entityName)]>>
  \o [i \in DOMAIN entitySchema.properties |->
        [kind |-> "property",
         name |-> entitySchema.properties[i][1],
         optional |-> ~ IsRequired(entitySchema, entitySchema.properties[i][1]),
         type |-> jsonSchemaToTypeScript(entitySchema.properties[i][2])]]
  \o <<[kind |-> "end"]>>

\* Object.entries(schema.definitions).forEach of convertToTypeScript, first n
RECURSIVE TypeScriptInterfaces(_, _)
TypeScriptInterfaces(definitions, n) ==
  IF n = 0 THEN <<>>
  ELSE TypeScriptInterfaces(definitions, n - 1)
       \o TypeScriptInterface(definitions[n][1], definitions[n][2])

\* the first definition that is null, 0 if none
FirstNull(definitions) ==
  IF \E i \in DOMAIN definitions : definitions[i][2] = Null
  THEN CHOOSE i \in DOMAIN definitions :
         /\ definitions[i][2] = Null
         /\ \A k \in 1..(i - 1) : definitions[k][2] # Null
  ELSE 0

convertToTypeScript(schema) ==
  IF ~ HasDefinitions(schema)
  THEN Ok(<<[kind |-> "comment", text |-> "// Auto-generated TypeScript interfaces"]>>)
  ELSE IF FirstNull(schema.definitions) # 0
  THEN TypeError("Cannot read properties of null (reading 'properties')")
  ELSE Ok(<<[kind |-> "comment", text |-> "// Auto-generated TypeScript interfaces"]>>
          \o TypeScriptInterfaces(schema.definitions, Len(schema.definitions)))

jsonSchemaToMongoose(schema) ==
  CASE schema.type = "string" -> "String"
    [] schema.type \in {"number", "integer"} -> "Number"
    [] schema.type = "boolean" -> "Boolean"
    [] schema.type = "array" -> "[String]"
    [] schema.type = "object" -> "mongoose.Schema.Types.Mixed"
    [] OTHER -> "String"

\* the properties convertToMongoose writes: id is skipped
RECURSIVE MongoosePaths(_, _, _)
MongoosePaths(entitySchema, properties, n) ==
  IF n = 0 THEN <<>>
  ELSE IF properties[n][1] = "id" THEN MongoosePaths(entitySchema, properties, n - 1)
  ELSE Append(MongoosePaths(entitySchema, properties, n - 1),
              [kind |-> "path", name |-> properties[n][1],
               type |-> jsonSchemaToMongoose(properties[n][2]),
               required |-> IsRequired(entitySchema, properties[n][1])])

\* the lines convertToMongoose appends for one definition
MongooseModel(entityName, entitySchema) ==
  <<[kind |-> "schema", text |-> "const " \o entityName \o "Schema = new mongoose.Schema"]>>
  \o MongoosePaths(entitySchema, entitySchema.properties, Len(entitySchema.properties))
  \o <<[kind |-> "model",
        text |-> "module.exports." \o Capitalize(entityName) \o " = mongoose.model('"
                   \o Capitalize(entityName) \o "', " \o entityName \o "Schema)"]>>

RECURSIVE MongooseModels(_, _)
MongooseModels(definitions, n) ==
  IF n = 0 THEN <<>>
  ELSE MongooseModels(definitions, n - 1)
       \o MongooseModel(definitions[n][1], definitions[n][2])

convertToMongoose(schema) ==
  IF ~ HasDefinitions(schema)
  THEN Ok(<<[kind |-> "comment", text |-> "// Auto-generated Mongoose schemas"]>>)
  ELSE IF FirstNull(schema.definitions) # 0
  THEN TypeError("Cannot read properties of null (reading 'properties')")
  ELSE Ok(<<[kind |-> "comment", text |-> "// Auto-generated Mongoose schemas"]>>
          \o MongooseModels(schema.definitions, Len(schema.definitions)))

jsonSchemaToSQL(schema) ==
  CASE schema.type = "string" ->
         "VARCHAR(" \o (IF TruthyNum(schema.maxLength)
                        THEN ToString(schema.maxLength[1]) ELSE "255") \o ")"
    [] schema.type = "integer" -> "INT"
    [] schema.type = "number" -> "DECIMAL(10,2)"
    [] schema.type = "boolean" -> "BOOLEAN"
    [] OTHER -> "TEXT"

\* the column text of convertToSQL with the key flag written before NOT NULL
SqlTableKeyFirst(entityName, entitySchema) ==
  <<[kind |-> "table",
     text |-> "CREATE TABLE "
                \o OrStr(entitySchema.metadata.tableName, entityName \o "s")]>>
  \o [i \in DOMAIN entitySchema.properties |->
        LET propName == entitySchema.properties[i][1]
            propSchema == entitySchema.properties[i][2]
            notNull == \E k \in DOMAIN entitySchema.required :
                         entitySchema.required[k] = propName
            primaryKey == TruthyBool(propSchema.metadata.constraints.primary)
            autoIncrement == TruthyBool(propSchema.metadata.constraints.autoIncrement)
        IN [kind |-> "column",
            name |-> propName,
            type |-> jsonSchemaToSQL(propSchema),
            notNull |-> notNull,
            primaryKey |-> primaryKey,
            autoIncrement |-> autoIncrement,
            text |-> propName \o " " \o jsonSchemaToSQL(propSchema)
                       \o (IF primaryKey THEN " PRIMARY KEY" ELSE "")
                       \o (IF notNull THEN " NOT NULL" ELSE "")
                       \o (IF autoIncrement THEN " AUTO_INCREMENT" ELSE "")]]
  \o <<[kind |-> "end"]>>

\* the lines convertToSQL appends for one definition; the text of a column is
\* `${propName} ${sqlType}${nullable}${isPrimary}${autoIncrement}`
SqlTable(entityName, entitySchema) ==
  <<[kind |-> "table",
     text |-> "CREATE TABLE "
                \o OrStr(entitySchema.metadata.tableName, entityName \o "s")]>>
  \o [i \in DOMAIN entitySchema.properties |->
        LET propName == entitySchema.properties[i][1]
            propSchema == entitySchema.properties[i][2]
            notNull == IsRequired(entitySchema, propName)
            primaryKey == TruthyBool(propSchema.metadata.constraints.primary)
            autoIncrement == TruthyBool(propSchema.metadata.constraints.autoIncrement)
        IN [kind |-> "column",
            name |-> propName,
            type |-> jsonSchemaToSQL(propSchema),
            notNull |-> notNull,
            primaryKey |-> primaryKey,
            autoIncrement |-> autoIncrement,
            text |-> propName \o " " \o jsonSchemaToSQL(propSchema)
                       \o (IF notNull THEN " NOT NULL" ELSE "")
                       \o (IF primaryKey THEN " PRIMARY KEY" ELSE "")
                       \o (IF autoIncrement THEN " AUTO_INCREMENT" ELSE "")]]
  \o <<[kind |-> "end"]>>

RECURSIVE SqlTables(_, _)
SqlTables(definitions, n) ==
  IF n = 0 THEN <<>>
  ELSE SqlTables(definitions, n - 1) \o SqlTable(definitions[n][1], definitions[n][2])

convertToSQL(schema) ==
  IF ~ HasDefinitions(schema)
  THEN Ok(<<[kind |-> "comment", text |-> "-- Auto-generated SQL DDL"]>>)
  ELSE IF FirstNull(schema.definitions) # 0
  THEN TypeError("Cannot read properties of null (reading 'metadata')")
  ELSE Ok(<<[kind |-> "comment", text |-> "-- Auto-generated SQL DDL"]>>
          \o SqlTables(schema.definitions, Len(schema.definitions)))

convertSchemaFormat(schema, format) ==
  IF format[1] # "string"
  THEN IF format[1] = "undefined"
       THEN TypeError("Cannot read properties of undefined (reading 'toLowerCase')")
       ELSE TypeError("format.toLowerCase is not a function")
  ELSE LET token == IF format[2] \in DOMAIN FormatLowerCaseTable
                    THEN FormatLowerCaseTable[format[2]] ELSE format[2]
       IN CASE token = "typescript" ->
                 IF schema \in {Null, Undefined}
                 THEN TypeError("Cannot read properties of " \o schema.kind
                                  \o " (reading 'definitions')")
                 ELSE convertToTypeScript(schema)
            [] token = "mongoose" ->
                 IF schema \in {Null, Undefined}
                 THEN TypeError("Cannot read properties of " \o schema.kind
                                  \o " (reading 'definitions')")
                 ELSE convertToMongoose(schema)
            [] token = "sql" ->
                 IF schema \in {Null, Undefined}
                 THEN TypeError("Cannot read properties of " \o schema.kind
                                  \o " (reading 'definitions')")
                 ELSE convertToSQL(schema)
            [] OTHER -> Ok(schema)

(***************************************************************************)
(* apiService.js: generateApiEndpoints.                                    *)
(***************************************************************************)
\* the type keyword the switch of createOpenApiFieldSchema sets
OpenApiType(t) ==
  CASE t \in {"string", "text"} -> "string"
    [] t = "email" -> "string"
    [] t = "url" -> "string"
    [] t \in {"number", "integer", "int"} -> "integer"
    [] t \in {"float", "decimal", "double"} -> "number"
    [] t \in {"boolean", "bool"} -> "boolean"
    [] t \in {"date", "datetime", "timestamp"} -> "string"
    [] t = "array" -> "array"
    [] OTHER -> "string"

\* the format keyword the switch of createOpenApiFieldSchema sets, if any
OpenApiFormat(t) ==
  CASE t = "email" -> Some("email")
    [] t = "url" -> Some("uri")
    [] t \in {"date", "datetime", "timestamp"} -> Some("date-time")
    [] OTHER -> None

createOpenApiFieldSchema(field) ==
  LET t == toLowerCase(field.type)
  IN [description |-> field.description,
      type |-> OpenApiType(t),
      format |-> OpenApiFormat(t),
      maxLength |-> IF t \in {"string", "text"} /\ TruthyNum(field.constraints.maxLength)
                    THEN field.constraints.maxLength ELSE None,
      items |-> IF t = "array" THEN Some([type |-> "string"]) ELSE None]

\* generateExampleData stamping the clock into timestamp fields as well
ExampleValueStamped(field, now) ==
  LET t == toLowerCase(field.type)
  IN CASE t \in {"string", "text"} ->
            <<"string", IF field.name = "name" THEN "John Doe"
                        ELSE "Sample " \o field.name>>
       [] t = "email" -> <<"string", "user@example.com">>
       [] t \in {"number", "integer"} ->
            <<"number", IF field.name = "id" THEN 1 ELSE 100>>
       [] t = "boolean" -> <<"boolean", TRUE>>
       [] t \in {"date", "datetime", "timestamp"} -> <<"string", IsoString(now)>>
       [] OTHER -> <<"string", "sample_" \o field.name>>

\* the value generateExampleData synthesizes for one field, the clock reading now
ExampleValue(field, now) ==
  LET t == toLowerCase(field.type)
  IN CASE t \in {"string", "text"} ->
            <<"string", IF field.name = "name" THEN "John Doe"
                        ELSE "Sample " \o field.name>>
       [] t = "email" -> <<"string", "user@example.com">>
       [] t \in {"number", "integer"} ->
            <<"number", IF field.name = "id" THEN 1 ELSE 100>>
       [] t = "boolean" -> <<"boolean", TRUE>>
       [] t \in {"date", "datetime"} -> <<"string", IsoString(now)>>
       [] OTHER -> <<"string", "sample_" \o field.name>>

\* example[field.name] = ..., over the first n fields
RECURSIVE ExampleData(_, _, _)
ExampleData(fields, n, now) ==
  IF n = 0 THEN <<>>
  ELSE ObjSet(ExampleData(fields, n - 1, now), fields[n].name,
              ExampleValue(fields[n], now))

generateExampleData(entity, now) ==
  ExampleData(entity.fields.items, Len(entity.fields.items), now)

\* properties[field.name] = createOpenApiFieldSchema(field), over the first n fields
RECURSIVE ComponentProperties(_, _)
ComponentProperties(fields, n) ==
  IF n = 0 THEN <<>>
  ELSE ObjSet(ComponentProperties(fields, n - 1), fields[n].name,
              createOpenApiFieldSchema(fields[n]))

createComponentSchema(entity, now) ==
  [type |-> "object",
   properties |-> ComponentProperties(entity.fields.items, Len(entity.fields.items)),
   required |-> RequiredNames(entity.fields.items, Len(entity.fields.items)),
   example |-> generateExampleData(entity, now)]

SchemaRef(name) == "#/components/schemas/" \o name

IdParameter(name) ==
  [name |-> "id", in |-> "path", required |-> TRUE,
   description |-> name \o " ID", schema |-> [type |-> "integer"]]

\* the path item generateCrudEndpoints stores under /<tableName>
CollectionPathItem(entity) ==
  [get |-> [tags |-> <<entity.name>>,
            summary |-> "Get all " \o entity.tableName,
            description |-> "Retrieve a list of all " \o entity.tableName,
            parameters |-> <<"page", "limit", "sort">>,
            responses |-> <<<<"200", SchemaRef(entity.name)>>>>],
   post |-> [tags |-> <<entity.name>>,
             summary |-> "Create a new " \o entity.name,
             description |-> "Create a new " \o entity.name \o " record",
             requestBody |-> SchemaRef(entity.name),
             responses |-> <<<<"201", SchemaRef(entity.name)>>,
                             <<"400", "#/components/responses/ValidationError">>>>]]

\* the path item generateCrudEndpoints stores under /<tableName>/{id}
ItemPathItem(entity) ==
  [get |-> [tags |-> <<entity.name>>,
            summary |-> "Get " \o entity.name \o " by ID",
            description |-> "Retrieve a specific " \o entity.name \o " by its ID",
            parameters |-> <<IdParameter(entity.name)>>,
            responses |-> <<<<"200", SchemaRef(entity.name)>>,
                            <<"404", "#/components/responses/NotFound">>>>],
   put |-> [tags |-> <<entity.name>>,
            summary |-> "Update " \o entity.name,
            description |-> "Update an existing " \o entity.name,
            parameters |-> <<IdParameter(entity.name)>>,
            requestBody |-> SchemaRef(entity.name),
            responses |-> <<<<"200", SchemaRef(entity.name)>>,
                            <<"404", "#/components/responses/NotFound">>,
                            <<"400", "#/components/responses/ValidationError">>>>],
   delete |-> [tags |-> <<entity.name>>,
               summary |-> "Delete " \o entity.name,
               description |-> "Delete a " \o entity.name \o " by ID",
               parameters |-> <<IdParameter(entity.name)>>,
               responses |-> <<<<"204", entity.name \o " deleted successfully">>,
                               <<"404", "#/components/responses/NotFound">>>>]]

\* relationships.forEach of generateRelationshipEndpoints assigning the path
\* item whether or not the key is there
RECURSIVE generateRelationshipEndpointsOverwriting(_, _, _, _)
generateRelationshipEndpointsOverwriting(paths, relationships, entities, n) ==
  IF n = 0 THEN paths
  ELSE LET before == generateRelationshipEndpointsOverwriting(paths, relationships,
                                                              entities, n - 1)
           rel == relationships[n]
           from == [k \in DOMAIN entities |-> entities[k].name = rel.from]
           to == [k \in DOMAIN entities |-> entities[k].name = rel.to]
       IN IF ~ ((\E k \in DOMAIN from : from[k]) /\ (\E k \in DOMAIN to : to[k]))
          THEN before
          ELSE LET f == CHOOSE k \in DOMAIN from : from[k] /\ \A j \in 1..(k - 1) : ~ from[j]
                   t == CHOOSE k \in DOMAIN to : to[k] /\ \A j \in 1..(k - 1) : ~ to[j]
                   key == "/" \o entities[f].tableName \o "/{id}/" \o entities[t].tableName
                   item == [get |-> [tags |-> <<rel.from>>,
                                     summary |-> "Get " \o rel.to \o " related to " \o rel.from,
                                     description |-> "Retrieve " \o entities[t].tableName
                                                       \o " associated with a specific "
                                                       \o rel.from,
                                     parameters |-> <<[name |-> "id", in |-> "path",
                                                       required |-> TRUE,
                                                       description |-> rel.from \o " ID",
                                                       schema |-> [type |-> "integer"]]>>,
                                     responses |->
                                       <<<<"200", "#/components/schemas/" \o rel.to>>,
                                         <<"404", "#/components/responses/NotFound">>>>]]
               IN IF \E k \in DOMAIN before : before[k][1] = key
                  THEN [k \in DOMAIN before |->
                          IF before[k][1] = key THEN <<key, item>> ELSE before[k]]
                  ELSE Append(before, <<key, item>>)

generateCrudEndpoints(paths, entity) ==
  ObjSet(ObjSet(paths, "/" \o entity.tableName, CollectionPathItem(entity)),
         "/" \o entity.tableName \o "/{id}", ItemPathItem(entity))

\* entities.find(e => e.name === name): the index of the first match, 0 if none
FindEntity(entities, name) ==
  IF \E i \in DOMAIN entities : entities[i].name = name
  THEN CHOOSE i \in DOMAIN entities :
         /\ entities[i].name = name
         /\ \A j \in 1..(i - 1) : entities[j].name # name
  ELSE 0

\* fromEntity && toEntity
Resolves(entities, rel) ==
  FindEntity(entities, rel.from) # 0 /\ FindEntity(entities, rel.to) # 0

RelationshipPath(entities, rel) ==
  "/" \o entities[FindEntity(entities, rel.from)].tableName \o "/{id}/"
      \o entities[FindEntity(entities, rel.to)].tableName

RelationshipPathItem(entities, rel) ==
  [get |-> [tags |-> <<rel.from>>,
            summary |-> "Get " \o rel.to \o " related to " \o rel.from,
            description |-> "Retrieve " \o entities[FindEntity(entities, rel.to)].tableName
                              \o " associated with a specific " \o rel.from,
            parameters |-> <<IdParameter(rel.from)>>,
            responses |-> <<<<"200", SchemaRef(rel.to)>>,
                            <<"404", "#/components/responses/NotFound">>>>]]

\* relationships.forEach of generateRelationshipEndpoints, over the first n
RECURSIVE generateRelationshipEndpoints(_, _, _, _)
generateRelationshipEndpoints(paths, relationships, entities, n) ==
  IF n = 0 THEN paths
  ELSE LET before == generateRelationshipEndpoints(paths, relationships, entities, n - 1)
           rel == relationships[n]
       IN IF ~ Resolves(entities, rel) THEN before
          ELSE IF ObjHas(before, RelationshipPath(entities, rel)) THEN before
          ELSE Append(before, <<RelationshipPath(entities, rel),
                                RelationshipPathItem(entities, rel)>>)

\* the snippets of one entity in one language; a 'create' snippet is the
\* interpolated JSON.stringify(generateExampleData(entity), null, indent)
CodeExample(language, entity, now) ==
  CASE language = "javascript" ->
         [getAll |-> "fetch('/api/" \o entity.tableName \o "')",
          getById |-> "fetch('/api/" \o entity.tableName \o "/1')",
          create |-> [payload |-> generateExampleData(entity, now), indent |-> 2],
          update |-> "fetch('/api/" \o entity.tableName \o "/1', PUT)",
          delete |-> "fetch('/api/" \o entity.tableName \o "/1', DELETE)"]
    [] language = "python" ->
         [getAll |-> "requests.get('http://localhost:3000/api/"
                       \o entity.tableName \o "')",
          create |-> [payload |-> generateExampleData(entity, now), indent |-> 2]]
    [] language = "curl" ->
         [getAll |-> "curl -X GET http://localhost:3000/api/" \o entity.tableName,
          create |-> [payload |-> generateExampleData(entity, now), indent |-> 0],
          update |-> "curl -X PUT http://localhost:3000/api/"
                       \o entity.tableName \o "/1",
          delete |-> "curl -X DELETE http://localhost:3000/api/"
                       \o entity.tableName \o "/1"]

\* examples.<language>[entityName] = ..., over the first n entities
RECURSIVE LanguageExamples(_, _, _, _)
LanguageExamples(language, entities, n, now) ==
  IF n = 0 THEN <<>>
  ELSE ObjSet(LanguageExamples(language, entities, n - 1, now), entities[n].name,
              CodeExample(language, entities[n], now))

generateCodeExamples(entities, now) ==
  [javascript |-> LanguageExamples("javascript", entities, Len(entities), now),
   python |-> LanguageExamples("python", entities, Len(entities), now),
   curl |-> LanguageExamples("curl", entities, Len(entities), now)]

\* components.schemas after the first n entities
RECURSIVE ComponentSchemas(_, _, _)
ComponentSchemas(entities, n, now) ==
  IF n = 0 THEN <<>>
  ELSE ObjSet(ComponentSchemas(entities, n - 1, now), entities[n].name,
              createComponentSchema(entities[n], now))

\* paths after the CRUD endpoints of the first n entities
RECURSIVE CrudPaths(_, _)
CrudPaths(entities, n) ==
  IF n = 0 THEN <<>>
  ELSE generateCrudEndpoints(CrudPaths(entities, n - 1), entities[n])

\* apiSpec.tags: one tag pushed per entity
ApiTags(entities) ==
  [i \in DOMAIN entities |->
     [name |-> entities[i].name,
      description |-> OrStr(entities[i].description, entities[i].name) \o " operations"]]

\* relationships && relationships.length > 0
HasRelationships(relationships) ==
  IsArray(relationships) /\ Len(relationships.items) > 0

ApiPaths(data) ==
  IF HasRelationships(data.relationships)
  THEN generateRelationshipEndpoints(
         CrudPaths(data.entities.items, Len(data.entities.items)),
         data.relationships.items, data.entities.items,
         Len(data.relationships.items))
  ELSE CrudPaths(data.entities.items, Len(data.entities.items))

\* the entity as template literals read it: ${entity.tableName} of an entity
\* without tableName is the text undefined
TemplateEntity(entity) ==
  IF HasKey(entity, "tableName") THEN entity
  ELSE [k \in DOMAIN entity \cup {"tableName"} |->
          IF k = "tableName" THEN "undefined" ELSE entity[k]]

TemplateView(data) ==
  [data EXCEPT !.entities =
     Arr([i \in DOMAIN data.entities.items |-> TemplateEntity(data.entities.items[i])])]

\* what the try block of generateApiEndpoints returns when nothing throws;
\* times: the clock readings of the component examples, of summary.generatedAt
\* and of the code examples, in the order the calls are made
ApiResult(data, times) ==
  [openApiSpec |->
    [openapi |-> "3.0.3",
     paths |-> ApiPaths(data),
     components |->
       [schemas |-> ComponentSchemas(data.entities.items,
                                     Len(data.entities.items), times[1]),
        responses |-> <<"NotFound", "ValidationError">>],
     tags |-> ApiTags(data.entities.items)],
   summary |->
    [totalEndpoints |-> Len(ApiPaths(data)),
     totalSchemas |-> Len(ComponentSchemas(data.entities.items,
                                           Len(data.entities.items), times[1])),
     entities |-> [i \in DOMAIN data.entities.items |->
                     data.entities.items[i].name],
     generatedAt |-> IsoString(times[2])],
   codeExamples |-> generateCodeExamples(data.entities.items, times[3])]

generateApiEndpoints(data, times) ==
  IF ShapeFault(data) # None
  THEN Error("API generation failed: " \o ShapeFault(data)[1])
  ELSE Ok(ApiResult(TemplateView(data), times))

(***************************************************************************)
(* erdService.js: generateErdDiagram.                                      *)
(***************************************************************************)
MermaidTypeMap ==
  [string |-> "varchar", text |-> "text", email |-> "varchar", url |-> "varchar",
   number |-> "int", integer |-> "int", int |-> "int", float |-> "float",
   decimal |-> "decimal", double |-> "double", boolean |-> "boolean",
   bool |-> "boolean", date |-> "date", datetime |-> "datetime",
   timestamp |-> "timestamp", array |-> "json", json |-> "json", object |-> "json"]

mapTypeToMermaidType(type) == LookupOr(MermaidTypeMap, toLowerCase(type), "varchar")

PlantUMLTypeMap ==
  [string |-> "VARCHAR", text |-> "TEXT", email |-> "VARCHAR", url |-> "VARCHAR",
   number |-> "INTEGER", integer |-> "INTEGER", int |-> "INTEGER",
   float |-> "FLOAT", decimal |-> "DECIMAL", double |-> "DOUBLE",
   boolean |-> "BOOLEAN", bool |-> "BOOLEAN", date |-> "DATE",
   datetime |-> "DATETIME", timestamp |-> "TIMESTAMP", array |-> "JSON",
   json |-> "JSON", object |-> "JSON"]

mapTypeToPlantUMLType(type) == LookupOr(PlantUMLTypeMap, toLowerCase(type), "VARCHAR")

\* array.join(separator)
RECURSIVE Join(_, _)
Join(parts, separator) ==
  IF parts = <<>> THEN ""
  ELSE IF Len(parts) = 1 THEN parts[1]
  ELSE parts[1] \o separator \o Join(Tail(parts), separator)

\* generateMermaidConstraints pushing AUTO_INCREMENT before NOT NULL
generateMermaidConstraintsReordered(field) ==
  LET constraints ==
        (IF TruthyBool(field.constraints.primary) THEN <<"PK">> ELSE <<>>)
        \o (IF TruthyBool(field.constraints.unique) THEN <<"UK">> ELSE <<>>)
        \o (IF TruthyBool(field.constraints.autoIncrement)
            THEN <<"AUTO_INCREMENT">> ELSE <<>>)
        \o (IF field.required THEN <<"NOT NULL">> ELSE <<>>)
  IN IF Len(constraints) > 0 THEN " \"" \o Join(constraints, ", ") \o "\"" ELSE ""

generateMermaidConstraints(field) ==
  LET constraints ==
        (IF TruthyBool(field.constraints.primary) THEN <<"PK">> ELSE <<>>)
        \o (IF TruthyBool(field.constraints.unique) THEN <<"UK">> ELSE <<>>)
        \o (IF field.required THEN <<"NOT NULL">> ELSE <<>>)
        \o (IF TruthyBool(field.constraints.autoIncrement)
            THEN <<"AUTO_INCREMENT">> ELSE <<>>)
  IN IF Len(constraints) > 0 THEN " \"" \o Join(constraints, ", ") \o "\"" ELSE ""

getPlantUMLKeyIndicator(field) ==
  IF TruthyBool(field.constraints.primary) THEN "* "
  ELSE IF TruthyBool(field.constraints.unique) THEN "+ "
  ELSE IF field.required THEN "- "
  ELSE "  "

RelationshipSymbolMap ==
  [oneToOne |-> "||--||", oneToMany |-> "||--o{", manyToOne |-> "o{--||",
   manyToMany |-> "o{--o{"]

getMermaidRelationshipSymbol(relType) ==
  LookupOr(RelationshipSymbolMap, relType, "||--o{")

PlantUMLSymbolMap ==
  [oneToOne |-> "||--||", oneToMany |-> "||--o{", manyToOne |-> "o{--||",
   manyToMany |-> "o{--o{"]

\* a PlantUML symbol table that drifted from the Mermaid one
getPlantUMLRelationshipSymbolDrifted(relType) ==
  LookupOr([PlantUMLSymbolMap EXCEPT !.manyToOne = "}o--||"], relType, "||--o{")

getPlantUMLRelationshipSymbol(relType) ==
  LookupOr(PlantUMLSymbolMap, relType, "||--o{")

RelationshipTextMap ==
  [oneToOne |-> "has one", oneToMany |-> "has many", manyToOne |-> "belongs to",
   manyToMany |-> "has many"]

\* a verb table whose manyToOne entry repeats the oneToMany one
getRelationshipTextRepeated(relType) ==
  LookupOr([RelationshipTextMap EXCEPT !.manyToOne = "has many"], relType, "relates to")

getRelationshipText(relType) == LookupOr(RelationshipTextMap, relType, "relates to")

CardinalityMap ==
  [oneToOne |-> "1 --> 1", oneToMany |-> "1 --> \"*\"", manyToOne |-> "\"*\" --> 1",
   manyToMany |-> "\"*\" --> \"*\""]

getClassDiagramCardinality(relType) == LookupOr(CardinalityMap, relType, "1 --> \"*\"")

getConstraintDescription(constraints) ==
  LET descriptions ==
        (IF TruthyBool(constraints.primary) THEN <<"Primary Key">> ELSE <<>>)
        \o (IF TruthyBool(constraints.unique) THEN <<"Unique">> ELSE <<>>)
        \o (IF TruthyBool(constraints.autoIncrement) THEN <<"Auto Increment">> ELSE <<>>)
        \o (IF TruthyNum(constraints.maxLength)
            THEN <<"Max Length: " \o ToString(constraints.maxLength[1])>> ELSE <<>>)
        \o (IF TruthyNum(constraints.minLength)
            THEN <<"Min Length: " \o ToString(constraints.minLength[1])>> ELSE <<>>)
        \o (IF constraints.minimum # None
            THEN <<"Min Value: " \o ToString(constraints.minimum[1])>> ELSE <<>>)
        \o (IF constraints.maximum # None
            THEN <<"Max Value: " \o ToString(constraints.maximum[1])>> ELSE <<>>)
        \o (IF constraints.default # None
            THEN <<"Default: " \o constraints.default[1]>> ELSE <<>>)
        \o (IF constraints.enum # None
            THEN <<"Options: " \o Join(constraints.enum[1], ", ")>> ELSE <<>>)
  IN IF Len(descriptions) > 0 THEN " (" \o Join(descriptions, ", ") \o ")" ELSE ""

\* a label that is the type token whatever the description
RelationshipLabelTypeOnly(rel) == rel.type

\* rel.description || rel.type
RelationshipLabel(rel) == OrStr(rel.description, rel.type)

\* the lines generateMermaidERD appends for one entity
MermaidEntityBlock(entity) ==
  <<[kind |-> "entity", table |-> toUpperCase(entity.tableName)]>>
  \o [i \in DOMAIN entity.fields.items |->
        [kind |-> "field",
         type |-> mapTypeToMermaidType(entity.fields.items[i].type),
         name |-> entity.fields.items[i].name,
         constraint |-> generateMermaidConstraints(entity.fields.items[i])]]
  \o <<[kind |-> "end"]>>

\* the blocks of the first n entities, in order
RECURSIVE MermaidEntities(_, _)
MermaidEntities(entities, n) ==
  IF n = 0 THEN <<>>
  ELSE MermaidEntities(entities, n - 1) \o MermaidEntityBlock(entities[n])

\* relationships.forEach of generateMermaidERD, over the first n
RECURSIVE MermaidRelationships(_, _, _)
MermaidRelationships(entities, relationships, n) ==
  IF n = 0 THEN <<>>
  ELSE MermaidRelationships(entities, relationships, n - 1)
       \o (IF Resolves(entities, relationships[n])
           THEN <<[kind |-> "relationship",
                   from |-> toUpperCase(entities[FindEntity(entities, relationships[n].from)].tableName),
                   symbol |-> getMermaidRelationshipSymbol(relationships[n].type),
                   to |-> toUpperCase(entities[FindEntity(entities, relationships[n].to)].tableName),
                   label |-> RelationshipLabel(relationships[n])]>>
           ELSE <<>>)

\* generateMermaidERD testing if (relationships): an empty array is truthy
generateMermaidERDTruthy(entities, relationships) ==
  <<[kind |-> "header", text |-> "erDiagram"]>>
  \o MermaidEntities(entities, Len(entities))
  \o <<[kind |-> "section", text |-> "%% Relationships"]>>
  \o MermaidRelationships(entities, relationships, Len(relationships))

generateMermaidERD(entities, relationships) ==
  <<[kind |-> "header", text |-> "erDiagram"]>>
  \o MermaidEntities(entities, Len(entities))
  \o (IF Len(relationships) > 0
      THEN <<[kind |-> "section", text |-> "%% Relationships"]>>
           \o MermaidRelationships(entities, relationships, Len(relationships))
      ELSE <<>>)

\* the lines generatePlantUMLERD appends for one entity
PlantUMLEntityBlock(entity) ==
  <<[kind |-> "entity", table |-> entity.tableName, alias |-> entity.name]>>
  \o [i \in DOMAIN entity.fields.items |->
        [kind |-> "field",
         indicator |-> getPlantUMLKeyIndicator(entity.fields.items[i]),
         name |-> entity.fields.items[i].name,
         type |-> mapTypeToPlantUMLType(entity.fields.items[i].type)]]
  \o <<[kind |-> "end"]>>

RECURSIVE PlantUMLEntities(_, _)
PlantUMLEntities(entities, n) ==
  IF n = 0 THEN <<>>
  ELSE PlantUMLEntities(entities, n - 1) \o PlantUMLEntityBlock(entities[n])

\* relationships.forEach of generatePlantUMLERD, over the first n
RECURSIVE PlantUMLRelationships(_, _, _)
PlantUMLRelationships(entities, relationships, n) ==
  IF n = 0 THEN <<>>
  ELSE PlantUMLRelationships(entities, relationships, n - 1)
       \o (IF Resolves(entities, relationships[n])
           THEN <<[kind |-> "relationship",
                   from |-> relationships[n].from,
                   symbol |-> getPlantUMLRelationshipSymbol(relationships[n].type),
                   to |-> relationships[n].to,
                   label |-> RelationshipLabel(relationships[n])]>>
           ELSE <<>>)

generatePlantUMLERD(entities, relationships) ==
  <<[kind |-> "header", text |-> "@startuml"]>>
  \o PlantUMLEntities(entities, Len(entities))
  \o (IF Len(relationships) > 0
      THEN PlantUMLRelationships(entities, relationships, Len(relationships))
      ELSE <<>>)
  \o <<[kind |-> "footer", text |-> "@enduml"]>>

\* the lines generateTextualDescription appends for entity number index
TextualEntityBlock(entity, index) ==
  <<[kind |-> "entity", index |-> index, name |-> toUpperCase(entity.name),
     table |-> entity.tableName,
     description |-> OrStr(entity.description, "No description provided")]>>
  \o [i \in DOMAIN entity.fields.items |->
        [kind |-> "field",
         name |-> entity.fields.items[i].name,
         type |-> entity.fields.items[i].type,
         requiredText |-> IF entity.fields.items[i].required
                          THEN " (Required)" ELSE " (Optional)",
         description |-> entity.fields.items[i].description
                           \o getConstraintDescription(entity.fields.items[i].constraints)]]

RECURSIVE TextualEntities(_, _)
TextualEntities(entities, n) ==
  IF n = 0 THEN <<>>
  ELSE TextualEntities(entities, n - 1) \o TextualEntityBlock(entities[n], n)

\* relationships.forEach of generateTextualDescription
TextualRelationships(relationships) ==
  [i \in DOMAIN relationships |->
     [kind |-> "relationship", index |-> i,
      from |-> relationships[i].from,
      verb |-> getRelationshipText(relationships[i].type),
      to |-> relationships[i].to,
      description |-> OrStr(relationships[i].description, "No description provided")]]

generateTextualDescription(entities, relationships, now) ==
  <<[kind |-> "header", text |-> "Database Schema Description"],
    [kind |-> "section", text |-> "Entities:"]>>
  \o TextualEntities(entities, Len(entities))
  \o (IF Len(relationships) > 0
      THEN <<[kind |-> "section", text |-> "Relationships:"]>>
           \o TextualRelationships(relationships)
      ELSE <<>>)
  \o <<[kind |-> "section", text |-> "Summary:"],
       [kind |-> "summary", text |-> "Total Entities: " \o ToString(Len(entities))],
       [kind |-> "summary",
        text |-> "Total Relationships: " \o ToString(Len(relationships))],
       [kind |-> "generated", text |-> "Generated: " \o IsoString(now)]>>

\* times: the clock readings of the 'Generated:' line and of metadata.generatedAt
generateErdDiagram(data, times) ==
  IF ErdFault(data) # None
  THEN Error("ERD generation failed: " \o ErdFault(data)[1])
  ELSE Ok([mermaid |-> generateMermaidERD(data.entities.items,
                                          OrEmpty(data.relationships)),
           plantUML |-> generatePlantUMLERD(data.entities.items,
                                            OrEmpty(data.relationships)),
           textual |-> generateTextualDescription(data.entities.items,
                                                  OrEmpty(data.relationships),
                                                  times[1]),
           metadata |-> [totalEntities |-> Len(data.entities.items),
                         totalRelationships |-> Len(OrEmpty(data.relationships)),
                         generatedAt |-> IsoString(times[2]),
                         diagramType |-> "Entity Relationship Diagram"]])

\* the lines generateDetailedDiagram appends for one entity
DetailedClassBlock(entity) ==
  <<[kind |-> "class", name |-> entity.name]>>
  \o [i \in DOMAIN entity.fields.items |->
        [kind |-> "member",
         visibility |-> IF TruthyBool(entity.fields.items[i].constraints.primary)
                        THEN "+"
                        ELSE IF entity.fields.items[i].required THEN "#" ELSE "-",
         type |-> entity.fields.items[i].type,
         name |-> entity.fields.items[i].name]]
  \o <<[kind |-> "end"]>>

\* the class diagram of generateDetailedDiagram
RECURSIVE DetailedClasses(_, _)
DetailedClasses(entities, n) ==
  IF n = 0 THEN <<>>
  ELSE DetailedClasses(entities, n - 1) \o DetailedClassBlock(entities[n])

generateDetailedDiagram(entities, relationships) ==
  <<[kind |-> "header", text |-> "classDiagram"]>>
  \o DetailedClasses(entities, Len(entities))
  \o [i \in DOMAIN relationships |->
        [kind |-> "relationship",
         from |-> relationships[i].from,
         cardinality |-> getClassDiagramCardinality(relationships[i].type),
         to |-> relationships[i].to,
         label |-> RelationshipLabel(relationships[i])]]

\* the lines generateSimpleDiagram appends (the box graph)
generateSimpleDiagram(entities, relationships) ==
  <<[kind |-> "header", text |-> "graph TD"]>>
  \o [i \in DOMAIN entities |-> [kind |-> "node", name |-> entities[i].name]]
  \o [i \in DOMAIN relationships |->
        [kind |-> "relationship", from |-> relationships[i].from,
         to |-> relationships[i].to]]

\* entity.fields.filter(f => f.constraints?.primary || f.required), first n fields
RECURSIVE KeyFields(_, _)
KeyFields(fields, n) ==
  IF n = 0 THEN <<>>
  ELSE IF TruthyBool(fields[n].constraints.primary) \/ fields[n].required
       THEN Append(KeyFields(fields, n - 1), fields[n].name)
       ELSE KeyFields(fields, n - 1)

\* the lines generateConceptualDiagram appends for the first n entities
RECURSIVE ConceptualEntities(_, _)
ConceptualEntities(entities, n) ==
  IF n = 0 THEN <<>>
  ELSE LET keys == KeyFields(entities[n].fields.items, Len(entities[n].fields.items))
       IN ConceptualEntities(entities, n - 1)
          \o <<[kind |-> "node", name |-> entities[n].name]>>
          \o [i \in 1..(IF Len(keys) < 3 THEN Len(keys) ELSE 3) |->
                [kind |-> "field", name |-> keys[i]]]

generateConceptualDiagram(entities) ==
  <<[kind |-> "header", text |-> "mindmap"],
    [kind |-> "root", text |-> "root((Database))"]>>
  \o ConceptualEntities(entities, Len(entities))

generateAlternativeDiagrams(entities, relationships) ==
  [simple |-> generateSimpleDiagram(entities, relationships),
   detailed |-> generateDetailedDiagram(entities, relationships),
   conceptual |-> generateConceptualDiagram(entities)]

(***************************************************************************)
(* The inputs: the request descriptions and the outcomes of the model      *)
(* call.                                                                   *)
(***************************************************************************)
VocabularyTokens ==
  {"string", "text", "email", "url", "number", "integer", "int", "float",
   "decimal", "double", "boolean", "bool", "date", "datetime", "timestamp",
   "array", "json", "object"}

UnknownTokens == {"bogus", "Bogus", "constructor", "Constructor", "toString", "__proto__"}

TypeTokens == VocabularyTokens \cup DOMAIN LowerCaseTable \cup UnknownTokens

RecognizedRelTypes == {"oneToOne", "oneToMany", "manyToOne", "manyToMany"}

RelTypeTokens == RecognizedRelTypes \cup {"hasMany", "constructor"}

\* an id field that is neither a number nor a key
LooseIdField ==
  [name |-> "id", type |-> "string", required |-> FALSE,
   description |-> "External reference", constraints |-> NoConstraints]

FieldPool ==
  {IdField, LooseIdField,
   [name |-> "name", type |-> "string", required |-> TRUE,
    description |-> "Full name",
    constraints |-> [NoConstraints EXCEPT !.maxLength = Some(100)]],
   [name |-> "createdAt", type |-> "datetime", required |-> FALSE,
    description |-> "Creation time", constraints |-> NoConstraints]}

\* a field of type token t
ProbeField(t) ==
  [name |-> "value", type |-> t, required |-> FALSE,
   description |-> "Probe", constraints |-> NoConstraints]

UserEntity(fields) ==
  [name |-> "user", tableName |-> "users", description |-> Some("System users"),
   fields |-> fields]

OrderEntity ==
  [name |-> "order", tableName |-> "orders", description |-> None,
   fields |-> Arr(<<[name |-> "total", type |-> "decimal", required |-> TRUE,
                     description |-> "Order total",
                     constraints |-> [NoConstraints EXCEPT !.minimum = Some(0)]],
                    [name |-> "placedAt", type |-> "date", required |-> FALSE,
                     description |-> "Order date", constraints |-> NoConstraints],
                    [name |-> "contact", type |-> "Email", required |-> FALSE,
                     description |-> "Contact address",
                     constraints |-> [NoConstraints EXCEPT !.unique = Some(TRUE)]]>>)]

CustomerEntity(tableName) ==
  [name |-> "customer", tableName |-> tableName, description |-> None,
   fields |-> Arr(<<IdField>>)]

Rel(from, to, type, description) ==
  [from |-> from, to |-> to, type |-> type, description |-> description]

RelPool ==
  {Rel("user", "order", "oneToMany", Some("places")),
   Rel("user", "order", "manyToMany", None),
   Rel("user", "ghost", "oneToMany", None)}

\* one relationship of each type token, and one from an entity that is not there
SingleRels ==
  {Rel("user", "order", t, None) : t \in RelTypeTokens}
  \cup {Rel("ghost", "order", "manyToMany", Some("haunts"))}

\* the parsed replies of the model
Replies ==
  \* one entity, any short field list
  {[entities |-> Arr(<<UserEntity(Arr(f))>>), relationships |-> Arr(<<>>)] :
     f \in SeqUpTo(FieldPool, MaxFields)}
  \* one entity, relationships omitted, null or empty
  \cup {[entities |-> Arr(<<UserEntity(Arr(f))>>), relationships |-> r] :
          f \in SeqUpTo(FieldPool, 1), r \in {Undefined, Null}}
  \* one entity with a field of each type token
  \cup {[entities |-> Arr(<<UserEntity(Arr(<<IdField, ProbeField(t)>>))>>),
         relationships |-> Arr(<<>>)] : t \in TypeTokens}
  \* two entities and any short relationship list
  \cup {[entities |-> Arr(<<UserEntity(Arr(<<IdField>>)), OrderEntity>>),
         relationships |-> Arr(r)] : r \in SeqUpTo(RelPool, MaxRels)}
  \cup {[entities |-> Arr(<<UserEntity(Arr(<<IdField>>)), OrderEntity>>),
         relationships |-> Arr(<<r>>)] : r \in SingleRels}
  \cup {[entities |-> Arr(<<UserEntity(Arr(<<IdField>>)), OrderEntity>>),
         relationships |-> r] : r \in {Undefined, Null}}
  \* two entities of one table name
  \cup {[entities |-> Arr(<<UserEntity(Arr(<<IdField>>)), CustomerEntity("users")>>),
         relationships |-> Arr(<<>>)]}
  \* relationships of one path from different entities, and a table name
  \* that is the path of a relationship
  \cup {[entities |-> Arr(<<UserEntity(Arr(<<IdField>>)), CustomerEntity("users"),
                            OrderEntity>>),
         relationships |-> Arr(<<Rel("user", "order", "oneToMany", None),
                                 Rel("customer", "order", "oneToMany", None)>>)],
        [entities |-> Arr(<<UserEntity(Arr(<<IdField>>)), OrderEntity,
                            CustomerEntity("users/{id}/orders")>>),
         relationships |-> Arr(<<Rel("user", "order", "oneToMany", None)>>)]}
  \* replies that are JSON but not of the Entity shape
  \cup {[entities |-> Undefined, relationships |-> Arr(<<>>)],
        [entities |-> Null, relationships |-> Arr(<<>>)],
        [entities |-> Arr(<<UserEntity(Undefined)>>), relationships |-> Arr(<<>>)]}

AiOutcomes ==
  {[kind |-> k] : k \in {"noKey", "overloaded", "error", "invalidJson"}}
  \cup {[kind |-> "reply", data |-> d] : d \in Replies}

\* description.toLowerCase().split(/\s+/) on the descriptions of the model
SplitWords ==
  ("users place orders" :> <<"users", "place", "orders">>) @@
  ("User and users" :> <<"user", "and", "users">>) @@
  ("a library of books by authors" :> <<"a", "library", "of", "books", "by", "authors">>) @@
  ("weather stations" :> <<"weather", "stations">>)

\* description.trim() === ''
IsBlank(text) == text \in {"", "   "}

Requests ==
  {[description |-> d, ai |-> [kind |-> "noKey"]] : d \in {None, Some(""), Some("   ")}}
  \cup {[description |-> Some(d), ai |-> [kind |-> k]] :
          d \in DOMAIN SplitWords, k \in {"noKey", "overloaded", "error", "invalidJson"}}
  \cup {[description |-> Some("users place orders"), ai |-> [kind |-> "reply", data |-> d]] :
          d \in Replies}

(***************************************************************************)
(* schemaController.js: generateSchema, one action per awaited step.       *)
(***************************************************************************)
NoResult == [kind |-> "none"]

\* api.ts: the module state after load: the server is taken to be awake, no
\* interval is set, no call was made (lastActiveTime, a display value that
\* no branch reads, is left out)
ClientIdle ==
  /\ serverStatus = [isAwake |-> TRUE, isWakingUp |-> FALSE, consecutiveFailures |-> 0]
  /\ healthCheckInterval = None
  /\ call = [c \in {} |-> NoResult]
  /\ healthPing = FALSE

\* health.js: the router module before it was loaded
HealthIdle ==
  /\ dateNow = 0
  /\ lastActivityTime = 0
  /\ requestCount = 0
  /\ healthReply = NoResult

\* no request received by a standalone handler
RouteIdle ==
  /\ body = NoResult
  /\ reply = NoResult

RestIdle ==
  /\ ClientIdle
  /\ HealthIdle
  /\ RouteIdle

\* no request received yet
HandlerIdle ==
  /\ pc = "idle"
  /\ request = [description |-> None, ai |-> [kind |-> "noKey"]]
  /\ parsedData = NoResult
  /\ jsonSchema = NoResult
  /\ apiEndpoints = NoResult
  /\ erdDiagram = NoResult
  /\ alternativeDiagrams = NoResult
  /\ response = NoResult

\* no service called directly
ServicesIdle ==
  /\ model = NoResult
  /\ calls = <<>>
  /\ document = NoResult
  /\ conversion = NoResult
  /\ validation = NoResult

Init ==
  /\ HandlerIdle
  /\ ServicesIdle
  /\ RestIdle
  /\ clock = 0

\* the catch block of generateSchema answering 500 whatever the message
FailureResponseAlways500(message) ==
  [kind |-> "sent", status |-> 500, error |-> "Failed to generate schema",
   message |-> message]

\* the catch block of generateSchema
FailureResponse(message) ==
  \* message.includes('AI service is currently overloaded'): of the messages
  \* of the model only parseNaturalLanguage's own contains that text
  IF message = "AI service is currently overloaded. Please try again later."
  THEN [kind |-> "sent", status |-> 503, error |-> "AI service temporarily unavailable",
        message |-> message]
  ELSE [kind |-> "sent", status |-> 500, error |-> "Failed to generate schema",
        message |-> message]

\* POST /generate arrives: the description check
ReceiveRequest(req) ==
  /\ pc = "idle"
  /\ request' = req
  /\ IF req.description = None \/ IsBlank(req.description[1])
     THEN /\ response' = [kind |-> "sent", status |-> 400,
                          error |-> "Description is required", message |-> ""]
          /\ pc' = "done"
     ELSE /\ response' = response
          /\ pc' = "parsing"
  /\ UNCHANGED <<parsedData, jsonSchema, apiEndpoints, erdDiagram,
                 alternativeDiagrams, clock>>
  /\ UNCHANGED <<serviceVars, restVars>>

\* Step 1: await aiService.parseNaturalLanguage(description)
ParseNaturalLanguage ==
  /\ pc = "parsing"
  /\ LET r == parseNaturalLanguage(SplitWords[request.description[1]], request.ai)
     IN IF r.kind = "ok"
        THEN /\ parsedData' = r
             /\ pc' = "schema"
             /\ response' = response
        ELSE /\ parsedData' = parsedData
             /\ pc' = "done"
             /\ response' = FailureResponse(r.message)
  /\ UNCHANGED <<request, jsonSchema, apiEndpoints, erdDiagram,
                 alternativeDiagrams, clock>>
  /\ UNCHANGED <<serviceVars, restVars>>

\* Step 2: await schemaService.generateJsonSchema(parsedData)
GenerateJsonSchema ==
  /\ pc = "schema"
  /\ LET r == generateJsonSchema(parsedData.value.data, clock)
     IN IF r.kind = "ok"
        THEN /\ jsonSchema' = r
             /\ pc' = "api"
             /\ response' = response
        ELSE /\ jsonSchema' = jsonSchema
             /\ pc' = "done"
             /\ response' = FailureResponse(r.message)
  /\ UNCHANGED <<request, parsedData, apiEndpoints, erdDiagram,
                 alternativeDiagrams, clock>>
  /\ UNCHANGED <<serviceVars, restVars>>

\* the clock readings of n successive new Date() calls started at now: the
\* millisecond may change once while the synchronous call runs
ClockReadings(now, n) ==
  {[i \in 1..n |-> now]}
  \cup {[i \in 1..n |-> IF i < k THEN now ELSE now + 1] :
          k \in {j \in 2..n : now < MaxClock}}

\* Step 3: await apiService.generateApiEndpoints(parsedData)
GenerateApiEndpoints ==
  /\ pc = "api"
  /\ \E times \in ClockReadings(clock, 3) :
       LET r == generateApiEndpoints(parsedData.value.data, times)
       IN /\ clock' = times[3]
          /\ IF r.kind = "ok"
             THEN /\ apiEndpoints' = r
                  /\ pc' = "erd"
                  /\ response' = response
             ELSE /\ apiEndpoints' = apiEndpoints
                  /\ pc' = "done"
                  /\ response' = FailureResponse(r.message)
  /\ UNCHANGED <<request, parsedData, jsonSchema, erdDiagram, alternativeDiagrams>>
  /\ UNCHANGED <<serviceVars, restVars>>

\* Step 4: await erdService.generateErdDiagram(parsedData), then res.json
GenerateErdDiagram ==
  /\ pc = "erd"
  /\ \E times \in ClockReadings(clock, 2) :
       LET r == generateErdDiagram(parsedData.value.data, times)
       IN /\ clock' = times[2]
          /\ pc' = "done"
          /\ IF r.kind = "ok"
             THEN /\ erdDiagram' = r
                  /\ response' = [kind |-> "sent", status |-> 200,
                                  error |-> "", message |-> ""]
             ELSE /\ erdDiagram' = erdDiagram
                  /\ response' = FailureResponse(r.message)
  /\ UNCHANGED <<request, parsedData, jsonSchema, apiEndpoints, alternativeDiagrams>>
  /\ UNCHANGED <<serviceVars, restVars>>

\* time passes while the handler is suspended at an await
Tick ==
  /\ pc \in {"parsing", "schema", "api", "erd"}
  /\ clock < MaxClock
  /\ clock' = clock + 1
  /\ UNCHANGED <<pc, request, parsedData, jsonSchema, apiEndpoints, erdDiagram,
                 alternativeDiagrams, response>>
  /\ UNCHANGED <<serviceVars, restVars>>

\* erdService.generateAlternativeDiagrams on the model of a finished request
GenerateAlternativeDiagrams ==
  /\ pc = "done"
  /\ erdDiagram.kind = "ok"
  /\ alternativeDiagrams = NoResult
  /\ alternativeDiagrams' =
       Ok(generateAlternativeDiagrams(parsedData.value.data.entities.items,
                                      OrEmpty(parsedData.value.data.relationships)))
  /\ UNCHANGED <<pc, request, parsedData, jsonSchema, apiEndpoints, erdDiagram,
                 response, clock>>
  /\ UNCHANGED <<serviceVars, restVars>>

Next ==
  \/ \E req \in Requests : ReceiveRequest(req)
  \/ ParseNaturalLanguage
  \/ GenerateJsonSchema
  \/ GenerateApiEndpoints
  \/ GenerateErdDiagram
  \/ GenerateAlternativeDiagrams
  \/ Tick

Spec == Init /\ [][Next]_vars

(***************************************************************************)
(* schemaService.js: validateSchema.  The Ajv instance is a library        *)
(* outside the repository: what its three calls do is an input.            *)
(***************************************************************************)
\* getSchema finds the meta schema or not; addMetaSchema and ajv.validateSchema
\* return or throw; ajv.errors is null or a list
AjvBehaviours ==
  {[getSchema |-> g, addMetaSchema |-> a, validateSchema |-> v, errors |-> e] :
     g \in BOOLEAN, a \in {"returns", "throws"},
     v \in {"true", "false", "throws"},
     e \in {Null, Arr(<<[message |-> "must be object"]>>)}}

\* the exception raised inside the try block of validateSchema, if any
ValidationFault(schema, ajv) ==
  IF ~ ajv.getSchema /\ ajv.addMetaSchema = "throws"
  THEN Some("schema with key or id already exists")
  ELSE IF ajv.validateSchema = "throws"
  THEN Some("no schema with key or ref")
  ELSE IF schema \in {Null, Undefined}
  THEN Some("Cannot read properties of " \o schema.kind \o " (reading 'definitions')")
  ELSE None

\* validateSchema without its catch block: the exception leaves the function
validateSchemaUncaught(schema, ajv, now) ==
  IF ValidationFault(schema, ajv) # None
  THEN [kind |-> "error", name |-> "Error", message |-> ValidationFault(schema, ajv)[1]]
  ELSE [valid |-> ajv.validateSchema = "true",
        errors |-> IF ajv.errors = Null THEN Arr(<<>>) ELSE ajv.errors,
        summary |-> [totalDefinitions |->
                       IF HasKey(schema, "definitions") THEN Len(schema.definitions) ELSE 0,
                     totalRelationships |->
                       IF HasKey(schema, "relationships")
                       THEN Len(schema.relationships) ELSE 0,
                     validatedAt |-> IsoString(now)]]

validateSchema(schema, ajv, now) ==
  IF ValidationFault(schema, ajv) # None
  THEN [valid |-> FALSE,
        errors |-> Arr(<<[message |-> ValidationFault(schema, ajv)[1]]>>),
        summary |-> [validatedAt |-> IsoString(now)]]
  ELSE [valid |-> ajv.validateSchema = "true",
        errors |-> IF ajv.errors = Null THEN Arr(<<>>) ELSE ajv.errors,
        summary |-> [totalDefinitions |->
                       IF HasDefinitions(schema) THEN Len(schema.definitions) ELSE 0,
                     totalRelationships |->
                       IF HasKey(schema, "relationships")
                       THEN Len(schema.relationships) ELSE 0,
                     validatedAt |-> IsoString(now)]]

(***************************************************************************)
(* Direct calls of the services: the models, documents and formats a       *)
(* caller can hand over.                                                   *)
(***************************************************************************)
\* an entity whose fields differ in required, primary, unique and autoIncrement
ItemEntity ==
  [name |-> "item", tableName |-> "items", description |-> None,
   fields |-> Arr(<<[name |-> "code", type |-> "string", required |-> FALSE,
                     description |-> "Item code",
                     constraints |-> [NoConstraints EXCEPT !.primary = Some(TRUE)]],
                    [name |-> "rank", type |-> "int", required |-> TRUE,
                     description |-> "Rank",
                     constraints |-> [NoConstraints EXCEPT !.primary = Some(FALSE),
                                                           !.autoIncrement = Some(TRUE)]],
                    [name |-> "price", type |-> "decimal", required |-> TRUE,
                     description |-> "Price",
                     constraints |-> [NoConstraints EXCEPT !.minimum = Some(0)]],
                    [name |-> "label", type |-> "text", required |-> FALSE,
                     description |-> "Label",
                     constraints |-> [NoConstraints EXCEPT !.unique = Some(TRUE)]]>>)]

\* models of the Entity shape
ShapedModels ==
  {[entities |-> Arr(<<UserEntity(Arr(<<IdField, ProbeField("date")>>)), OrderEntity>>),
    relationships |-> Arr(<<Rel("user", "order", "oneToMany", Some("places"))>>)],
   [entities |-> Arr(<<UserEntity(Arr(<<IdField>>))>>), relationships |-> Undefined],
   [entities |-> Arr(<<UserEntity(Arr(<<IdField>>)), CustomerEntity("customers")>>),
    relationships |-> Arr(<<>>)],
   \* fields with every combination of the key flags
   [entities |-> Arr(<<ItemEntity>>), relationships |-> Arr(<<>>)],
   \* two entities of one name
   [entities |-> Arr(<<UserEntity(Arr(<<IdField>>)),
                       UserEntity(Arr(<<IdField, ProbeField("string")>>))>>),
    relationships |-> Arr(<<>>)],
   \* two entities of one table name
   [entities |-> Arr(<<UserEntity(Arr(<<IdField>>)), CustomerEntity("users")>>),
    relationships |-> Arr(<<>>)]}

\* an entity without its tableName
NamelessTableEntity ==
  [name |-> "user", description |-> None, fields |-> Arr(<<IdField>>)]

\* a field without its type
TypelessField ==
  [name |-> "value", required |-> FALSE, description |-> "Probe",
   constraints |-> NoConstraints]

\* values that are not of the Entity shape
UnshapedModels ==
  {Null, Undefined,
   [entities |-> Undefined, relationships |-> Arr(<<>>)],
   [entities |-> Arr(<<UserEntity(Undefined)>>), relationships |-> Arr(<<>>)],
   [entities |-> Arr(<<UserEntity(Arr(<<IdField, TypelessField>>))>>),
    relationships |-> Arr(<<>>)],
   [entities |-> Arr(<<NamelessTableEntity>>), relationships |-> Arr(<<>>)]}

ServiceModels == ShapedModels \cup UnshapedModels

\* documents that no generator produced
ForeignDocuments ==
  {Null, Undefined,
   [title |-> "No definitions"],
   [definitions |-> <<<<"user", Null>>>>],
   [definitions |-> <<<<"user", createEntitySchema(UserEntity(Arr(<<IdField>>)))>>,
                      <<"order", Null>>>>]}

\* the format arguments: strings in either case, and values that are no string
Formats ==
  {<<"string", f>> : f \in {"sql", "SQL", "typescript", "TypeScript", "mongoose", "yaml"}}
  \cup {<<"number", 7>>, <<"undefined", 0>>}

\* a caller holds a model; a converter or validator caller holds the JSON
\* Schema generated from it, or a document from elsewhere and no model
GeneratorInit ==
  /\ HandlerIdle
  /\ RestIdle
  /\ clock \in 0..MaxClock
  /\ model \in ServiceModels
  /\ calls = <<>>
  /\ document = NoResult
  /\ conversion = NoResult
  /\ validation = NoResult

ConverterInit ==
  /\ HandlerIdle
  /\ RestIdle
  /\ clock \in 0..MaxClock
  /\ calls = <<>>
  /\ conversion = NoResult
  /\ validation = NoResult
  /\ \/ /\ model \in ServiceModels
        /\ generateJsonSchema(model, clock).kind = "ok"
        /\ document = generateJsonSchema(model, clock).value
     \/ /\ model = NoResult
        /\ document \in ForeignDocuments

\* replies the normalizer accepts and a generator breaks on
OddReplies ==
  {[entities |-> Arr(<<NamelessTableEntity>>), relationships |-> Arr(<<>>)],
   [entities |-> Arr(<<UserEntity(Arr(<<IdField, TypelessField>>))>>),
    relationships |-> Arr(<<>>)]}

\* the requests of the handler runs, the odd replies included
HandlerRequests ==
  Requests
  \cup {[description |-> Some("users place orders"), ai |-> [kind |-> "reply", data |-> d]] :
          d \in OddReplies}

HandlerNext ==
  \/ \E req \in HandlerRequests : ReceiveRequest(req)
  \/ ParseNaturalLanguage
  \/ GenerateJsonSchema
  \/ GenerateApiEndpoints
  \/ GenerateErdDiagram
  \/ Tick

\* the handler leaves the await it is suspended at
Resume ==
  /\ pc \in {"parsing", "schema", "api", "erd"}
  /\ pc' \in {"schema", "api", "erd", "done"}

\* each await of the handler is on a promise that settles (the service
\* methods are synchronous inside, the AI call ends by reply or by error), so
\* a suspended handler is resumed
HandlerSpec == Init /\ [][HandlerNext]_vars /\ WF_pc(Resume)

\* the three generators, by the artifact they make
Generators == {"schema", "api", "erd"}

\* one generator call on the model data, every clock reading of it being now
Generate(generator, data, now) ==
  CASE generator = "schema" -> generateJsonSchema(data, now)
    [] generator = "api" -> generateApiEndpoints(data, <<now, now, now>>)
    [] generator = "erd" -> generateErdDiagram(data, <<now, now>>)

\* a schema generator that stores its default into the model it was handed:
\* parsedData.relationships = relationships || []
InputAfterStoringDefault(generator, data) ==
  IF generator = "schema" /\ data \notin {Null, Undefined}
     /\ [kind |-> "array"] # [kind |-> data.relationships.kind]
  THEN [data EXCEPT !.relationships = [kind |-> "array", items |-> <<>>]]
  ELSE data

\* the object a generator was handed, after the call: the generators assign to
\* locals and to the artifacts they build, never to parsedData or below it
InputAfter(generator, data) == data

\* a caller (a handler of some request) runs one generator on the shared
\* model; a generator has no await inside, so the call is one step, and the
\* calls of different callers interleave in any order
CallGenerator(generator) ==
  /\ model # NoResult
  /\ Len(calls) < MaxCalls
  /\ calls' = Append(calls, [generator |-> generator, input |-> model,
                             result |-> Generate(generator, model, clock)])
  /\ model' = InputAfter(generator, model)
  /\ UNCHANGED <<document, conversion, validation, clock>>
  /\ UNCHANGED <<handlerVars, restVars>>

GeneratorNext == \E generator \in Generators : CallGenerator(generator)

GeneratorSpec == GeneratorInit /\ [][GeneratorNext]_vars

\* schemaService.convertSchemaFormat(document, format); a TypeError leaves it
ConvertSchemaFormat(format) ==
  /\ document # NoResult
  /\ conversion' = [format |-> format, result |-> convertSchemaFormat(document, format)]
  /\ UNCHANGED <<model, calls, document, validation, clock>>
  /\ UNCHANGED <<handlerVars, restVars>>

\* await schemaService.validateSchema(document)
ValidateSchema(ajv) ==
  /\ document # NoResult
  /\ validation' = [ajv |-> ajv, result |-> validateSchema(document, ajv, clock)]
  /\ UNCHANGED <<model, calls, document, conversion, clock>>
  /\ UNCHANGED <<handlerVars, restVars>>

ConverterNext ==
  \/ \E format \in Formats : ConvertSchemaFormat(format)
  \/ \E ajv \in AjvBehaviours : ValidateSchema(ajv)

ConverterSpec == ConverterInit /\ [][ConverterNext]_vars


(***************************************************************************)
(* frontend api.ts: the server-status tracker.  An axios error is a record *)
(* of its code, its message and the response it carries, if any; a         *)
(* response is its status and the 'message' of its body.                   *)
(***************************************************************************)
\* most retries a caller asks of retryWithBackoff (MAX_RETRIES is 8, the
\* callers pass 3, 5 and 8)
MaxRetries == 2

\* the callers whose calls are in progress at the same time
Callers == {"first", "second"}

NoResponse == [status |-> 0, message |-> ""]

Timeout ==
  [kind |-> "error", code |-> "ECONNABORTED", message |-> "timeout of 30000ms exceeded",
   response |-> NoResponse]

Unavailable ==
  [kind |-> "error", code |-> "ERR_BAD_RESPONSE",
   message |-> "Request failed with status code 503",
   response |-> [status |-> 503, message |-> "Service Unavailable"]]

Overloaded ==
  [kind |-> "error", code |-> "ERR_BAD_RESPONSE",
   message |-> "Request failed with status code 503",
   response |-> [status |-> 503,
                 message |-> "AI service is currently overloaded. Please try again later."]]

BadRequest ==
  [kind |-> "error", code |-> "ERR_BAD_REQUEST",
   message |-> "Request failed with status code 400",
   response |-> [status |-> 400, message |-> ""]]

\* what an attempt of the operation can end with, besides a response
Failures == {Timeout, Unavailable, Overloaded, BadRequest}

\* String.prototype.includes on the texts of the model
Includes(text, part) ==
  \/ text = part
  \/ /\ part = "timeout"
     /\ text = "timeout of 30000ms exceeded"
  \/ /\ part = "connect"
     /\ text \in {"connect ECONNREFUSED", "connect ETIMEDOUT"}
  \/ /\ part = "ECONNREFUSED"
     /\ text = "connect ECONNREFUSED"
  \/ /\ part = "AI service is currently overloaded"
     /\ text = "AI service is currently overloaded. Please try again later."

detectServerSleep(error) ==
  IF error.code \in {"ECONNABORTED", "NETWORK_ERROR"} THEN TRUE
  ELSE IF Includes(error.message, "timeout") THEN TRUE
  ELSE IF Includes(error.message, "connect") \/ Includes(error.message, "ECONNREFUSED")
       THEN TRUE
  ELSE IF error.response.status \in {502, 504} THEN TRUE
  ELSE IF /\ error.response.status = 503
          /\ Includes(error.response.message, "AI service is currently overloaded")
       THEN FALSE
  ELSE IF error.response.status = 503 THEN TRUE
  ELSE FALSE

\* a wake-up block that assigns isAwake alone
MarkAwakeOnly(status) ==
  [status EXCEPT !.isAwake = TRUE]

\* the wake-up block of the interceptor, of retryWithBackoff and of the
\* background check: isAwake, isWakingUp and consecutiveFailures together
MarkAwake(status) ==
  [status EXCEPT !.isAwake = TRUE, !.isWakingUp = FALSE, !.consecutiveFailures = 0]

\* retryWithBackoff's catch block on a server that was taken to be awake
MarkSleeping(status) ==
  [status EXCEPT !.isAwake = FALSE, !.isWakingUp = TRUE]

\* setInterval unless an interval is set already
startBackgroundHealthCheck(interval) ==
  IF interval # None THEN interval ELSE Some("interval")

\* clearInterval and null
stopBackgroundHealthCheck(interval) == None

NoCall ==
  [pc |-> "idle", maxRetries |-> 0, attempt |-> 0, outcome |-> NoResult,
   lastError |-> NoResult, result |-> NoResult]

FrontendInit ==
  /\ HandlerIdle
  /\ ServicesIdle
  /\ HealthIdle
  /\ RouteIdle
  /\ clock = 0
  /\ serverStatus = [isAwake |-> TRUE, isWakingUp |-> FALSE, consecutiveFailures |-> 0]
  /\ healthCheckInterval = None
  /\ call = [c \in Callers |-> NoCall]
  /\ healthPing = FALSE

\* what no step of the frontend touches
backendVars == <<handlerVars, serviceVars, healthVars, routeVars, clock>>

\* a caller enters retryWithBackoff: attempt 0 of the operation is sent
RetryWithBackoff(c, maxRetries) ==
  /\ call[c].pc = "idle"
  /\ call' = [call EXCEPT ![c] = [NoCall EXCEPT !.pc = "awaiting",
                                               !.maxRetries = maxRetries]]
  /\ UNCHANGED <<serverStatus, healthCheckInterval, healthPing>>
  /\ UNCHANGED backendVars

\* the request of a caller settles: apiClient's response interceptor runs
\* its success handler or rethrows the error
ResponseInterceptor(c, outcome) ==
  /\ call[c].pc = "awaiting"
  /\ call' = [call EXCEPT ![c].outcome = outcome,
                          ![c].pc = IF outcome.kind = "ok" THEN "resolved" ELSE "rejected"]
  /\ serverStatus' =
       IF outcome.kind = "ok" /\ (~serverStatus.isAwake \/ serverStatus.isWakingUp)
       THEN MarkAwake(serverStatus)
       ELSE serverStatus
  /\ UNCHANGED <<healthCheckInterval, healthPing>>
  /\ UNCHANGED backendVars

\* retryWithBackoff resumes after await operation() with the result
Succeed(c) ==
  /\ call[c].pc = "resolved"
  /\ call' = [call EXCEPT ![c].pc = "returned", ![c].result = call[c].outcome]
  /\ IF serverStatus.isWakingUp \/ ~serverStatus.isAwake
     THEN /\ serverStatus' = MarkAwake(serverStatus)
          /\ healthCheckInterval' = stopBackgroundHealthCheck(healthCheckInterval)
     ELSE UNCHANGED <<serverStatus, healthCheckInterval>>
  /\ UNCHANGED healthPing
  /\ UNCHANGED backendVars

\* retryWithBackoff's catch block, up to the throw, the break or the delay
Fail(c) ==
  /\ call[c].pc = "rejected"
  /\ LET error == call[c].outcome
         attempt == call[c].attempt
         maxRetries == call[c].maxRetries
         isLikelySleep == detectServerSleep(error)
         counted == IF attempt = 0 /\ isLikelySleep
                    THEN [serverStatus EXCEPT !.consecutiveFailures = @ + 1]
                    ELSE serverStatus
         noticed == IF attempt = 0 /\ isLikelySleep /\ serverStatus.isAwake
                    THEN MarkSleeping(counted)
                    ELSE counted
         started == IF attempt = 0 /\ isLikelySleep /\ serverStatus.isAwake
                    THEN startBackgroundHealthCheck(healthCheckInterval)
                    ELSE healthCheckInterval
     IN /\ healthCheckInterval' = started
        /\ IF ~isLikelySleep /\ attempt = 0
           THEN /\ serverStatus' = noticed
                /\ call' = [call EXCEPT ![c].lastError = error, ![c].pc = "thrown",
                                        ![c].result = error]
           ELSE IF attempt = maxRetries
           THEN /\ serverStatus' = [noticed EXCEPT !.isWakingUp = FALSE,
                                                   !.consecutiveFailures = maxRetries + 1]
                /\ call' = [call EXCEPT ![c].lastError = error, ![c].pc = "thrown",
                                        ![c].result = error]
           ELSE /\ serverStatus' = noticed
                /\ call' = [call EXCEPT ![c].lastError = error, ![c].pc = "delaying"]
  /\ UNCHANGED healthPing
  /\ UNCHANGED backendVars

\* the delay is over: the loop goes round and sends the next attempt
Retry(c) ==
  /\ call[c].pc = "delaying"
  /\ call' = [call EXCEPT ![c].pc = "awaiting", ![c].attempt = @ + 1]
  /\ UNCHANGED <<serverStatus, healthCheckInterval, healthPing>>
  /\ UNCHANGED backendVars

\* the interval's callback runs and finds the server not awake: it sends a
\* health request with plain axios (its timeout equals the period, so one
\* request is in flight at a time)
HealthCheckTick ==
  /\ healthCheckInterval # None
  /\ ~healthPing
  /\ ~serverStatus.isAwake \/ serverStatus.isWakingUp
  /\ healthPing' = TRUE
  /\ UNCHANGED <<serverStatus, healthCheckInterval, call>>
  /\ UNCHANGED backendVars

\* the callback's health request settles: status 200, or the catch block
HealthCheckResponse(ok) ==
  /\ healthPing
  /\ healthPing' = FALSE
  /\ serverStatus' = IF ok THEN MarkAwake(serverStatus) ELSE serverStatus
  /\ UNCHANGED <<healthCheckInterval, call>>
  /\ UNCHANGED backendVars

\* the response of an attempt: its data is that of the attempt
Response(c) == [kind |-> "ok", data |-> call[c].attempt]

FrontendNext ==
  \/ \E c \in Callers, maxRetries \in 1..MaxRetries : RetryWithBackoff(c, maxRetries)
  \/ \E c \in Callers : \E outcome \in {Response(c)} \cup Failures :
       ResponseInterceptor(c, outcome)
  \/ \E c \in Callers : Succeed(c)
  \/ \E c \in Callers : Fail(c)
  \/ \E c \in Callers : Retry(c)
  \/ HealthCheckTick
  \/ \E ok \in BOOLEAN : HealthCheckResponse(ok)

FrontendSpec == FrontendInit /\ [][FrontendNext]_vars

(***************************************************************************)
(* backend routes/health.js: the health router.  Time is Date.now() in     *)
(* milliseconds counted from the reading that serverStartTime holds.       *)
(***************************************************************************)
\* the requests the router handles in one run
MaxRequests == 3

\* uptime below which getServerState answers 'STARTING'
StartingWindow == 30000

\* time since the last activity above which getServerState answers 'IDLE'
IdleWindow == 300000

\* the times that pass between two requests
Gaps == {1, 29999, 30000, 299999, 300000, 300001}

getServerState(uptime, timeSinceLastActivity) ==
  IF uptime < StartingWindow THEN "STARTING"
  ELSE IF timeSinceLastActivity > IdleWindow THEN "IDLE"
  ELSE "ACTIVE"

\* the readings of n successive Date.now() calls of one synchronous run
\* that starts at t: the millisecond may change once on the way
DateReadings(t, n) ==
  {[i \in 1..n |-> IF i < k THEN t ELSE t + 1] : k \in 2..(n + 1)}

\* the module is loaded: serverStartTime and lastActivityTime are read one
\* after the other
HealthInit ==
  /\ HandlerIdle
  /\ ServicesIdle
  /\ ClientIdle
  /\ RouteIdle
  /\ clock = 0
  /\ dateNow \in {0, 1}
  /\ lastActivityTime = dateNow
  /\ requestCount = 0
  /\ healthReply = NoResult

\* what no step of the health router touches
nonHealthVars == <<handlerVars, serviceVars, clientVars, routeVars, clock>>

\* no request reaches the router for a while
Elapse(gap) ==
  /\ dateNow - lastActivityTime <= 1
  /\ requestCount < MaxRequests
  /\ dateNow' = dateNow + gap
  /\ UNCHANGED <<lastActivityTime, requestCount, healthReply>>
  /\ UNCHANGED nonHealthVars

\* GET /health: router.use's middleware, then the handler it calls by next()
GetHealth ==
  /\ requestCount < MaxRequests
  /\ \E times \in DateReadings(dateNow, 3) :
       LET uptime == times[2]
           timeSinceLastActivity == times[3] - times[1]
       IN /\ requestCount' = requestCount + 1
          /\ lastActivityTime' = times[1]
          /\ dateNow' = times[3]
          /\ healthReply' =
               [kind |-> "health",
                state |-> getServerState(uptime, timeSinceLastActivity),
                uptime |-> uptime,
                lastActivityAgo |-> timeSinceLastActivity,
                totalRequests |-> requestCount + 1,
                \* not part of the answer: the time from the previous
                \* request of the router to the handler's reading
                sincePrevious |-> times[3] - lastActivityTime]
  /\ UNCHANGED nonHealthVars

\* GET /health/ping: the middleware, then the pong
GetPing ==
  /\ requestCount < MaxRequests
  /\ \E times \in DateReadings(dateNow, 3) :
       /\ requestCount' = requestCount + 1
       /\ lastActivityTime' = times[1]
       /\ dateNow' = times[3]
       /\ healthReply' =
            [kind |-> "pong", state |-> "", uptime |-> times[3],
             lastActivityAgo |-> 0, totalRequests |-> requestCount + 1,
             sincePrevious |-> times[3] - lastActivityTime]
  /\ UNCHANGED nonHealthVars

HealthNext ==
  \/ \E gap \in Gaps : Elapse(gap)
  \/ GetHealth
  \/ GetPing

HealthSpec == HealthInit /\ [][HealthNext]_vars

(***************************************************************************)
(* schemaController.js: the standalone handlers generateApiEndpoints       *)
(* (POST /api-endpoints) and generateErdDiagram (POST /erd).               *)
(***************************************************************************)
\* the request bodies: no 'entities', a null one, an empty array, the entity
\* array of a model (well-formed or not), and a whole model under the key
\* 'entities'
Bodies ==
  {[entities |-> Undefined], [entities |-> Null], [entities |-> Arr(<<>>)]}
  \cup {[entities |-> m.entities] : m \in ServiceModels \ {Null, Undefined}}
  \cup {[entities |-> m] : m \in ShapedModels}

\* what `const { entities, relationships } = parsedData` reads from the value
\* a generator is handed: an array has neither property
Destructured(value) ==
  IF value \in {Null, Undefined} \/ HasKey(value, "entities")
  THEN value
  ELSE [entities |-> Undefined, relationships |-> Undefined]

\* the answer of a standalone handler; generated: was the generator called
RouteReply(route, status, error, message, artifact, generated) ==
  [kind |-> "sent", route |-> route, status |-> status, success |-> status = 200,
   error |-> error, message |-> message, artifact |-> artifact,
   generated |-> generated]

RouteInit ==
  /\ HandlerIdle
  /\ ServicesIdle
  /\ ClientIdle
  /\ HealthIdle
  /\ RouteIdle
  /\ clock \in 0..MaxClock

\* what no standalone handler touches
nonRouteVars == <<handlerVars, serviceVars, clientVars, healthVars>>

\* POST /api-endpoints
PostApiEndpoints(b) ==
  /\ body' = b
  /\ IF b.entities \in {Null, Undefined}
     THEN /\ reply' = RouteReply("api-endpoints", 400, "Entities are required", "",
                                 NoResult, FALSE)
          /\ clock' = clock
     ELSE \E times \in ClockReadings(clock, 3) :
            LET r == generateApiEndpoints(Destructured(b.entities), times)
            IN /\ clock' = IF r.kind = "ok" THEN times[3] ELSE clock
               /\ reply' = IF r.kind = "ok"
                           THEN RouteReply("api-endpoints", 200, "", "", r.value, TRUE)
                           ELSE RouteReply("api-endpoints", 500,
                                           "Failed to generate API endpoints",
                                           r.message, NoResult, TRUE)
  /\ UNCHANGED nonRouteVars

\* POST /erd
PostErd(b) ==
  /\ body' = b
  /\ IF b.entities \in {Null, Undefined}
     THEN /\ reply' = RouteReply("erd", 400, "Entities are required", "",
                                 NoResult, FALSE)
          /\ clock' = clock
     ELSE \E times \in ClockReadings(clock, 2) :
            LET r == generateErdDiagram(Destructured(b.entities), times)
            IN /\ clock' = IF r.kind = "ok" THEN times[2] ELSE clock
               /\ reply' = IF r.kind = "ok"
                           THEN RouteReply("erd", 200, "", "", r.value, TRUE)
                           ELSE RouteReply("erd", 500, "Failed to generate ERD diagram",
                                           r.message, NoResult, TRUE)
  /\ UNCHANGED nonRouteVars

RouteNext ==
  \/ \E b \in Bodies : PostApiEndpoints(b)
  \/ \E b \in Bodies : PostErd(b)

RouteSpec == RouteInit /\ [][RouteNext]_vars

(***************************************************************************)
(* Properties.                                                             *)
(***************************************************************************)
\* the model the generators of the current request work from
Entities == parsedData.value.data.entities.items

Relationships == OrEmpty(parsedData.value.data.relationships)

\* the AI reply the parser received
RawEntities == request.ai.data.entities.items

AiParsed == parsedData.kind = "ok" /\ parsedData.value.source = "ai"

\* the positions of the fields named id
IdPositions(fields) == {j \in DOMAIN fields : fields[j].name = "id"}

IsKeyIdField(field) ==
  /\ field.name = "id"
  /\ field.type = "number"
  /\ field.required = TRUE
  /\ field.constraints.primary = Some(TRUE)
  /\ field.constraints.autoIncrement = Some(TRUE)

\* C1: on the AI path, an entity whose field list has no field named id comes
\* back with the standard id field (number, required, primary, auto-increment)
\* first and its own fields after it in their order; an entity that has a
\* field named id comes back with its field list unchanged.
C1_NormalizerPrependsId ==
  AiParsed =>
    /\ Len(Entities) = Len(RawEntities)
    /\ \A i \in DOMAIN RawEntities :
         LET before == RawEntities[i].fields.items
             after == Entities[i].fields.items
         IN IF IdPositions(before) = {}
            THEN /\ Len(after) = Len(before) + 1
                 /\ IsKeyIdField(after[1])
                 /\ \A j \in DOMAIN before : after[j + 1] = before[j]
            ELSE after = before

\* an AI reply with an entity that has fields but no id, next to one that has
C1_Witness ==
  /\ AiParsed
  /\ \E i \in DOMAIN RawEntities :
       /\ IdPositions(RawEntities[i].fields.items) = {}
       /\ Len(RawEntities[i].fields.items) >= 2
  /\ \E i \in DOMAIN RawEntities : IdPositions(RawEntities[i].fields.items) # {}

\* C2: every entity of every model the parser returns (AI path or keyword
\* fallback) has exactly one field named id, and that field is number-typed,
\* required, primary and auto-increment.
C2_ExactlyOneKeyId ==
  parsedData.kind = "ok" =>
    \A i \in DOMAIN Entities :
      /\ Cardinality(IdPositions(Entities[i].fields.items)) = 1
      /\ \A j \in IdPositions(Entities[i].fields.items) :
           IsKeyIdField(Entities[i].fields.items[j])


\* the lines of a diagram that render a relationship
RelationshipLines(lines) == SelectSeq(lines, LAMBDA l : l.kind = "relationship")

IsEntityName(name) == \E i \in DOMAIN Entities : Entities[i].name = name

\* does relationship k of the model name two entities of the model
Endpoints(k) == IsEntityName(Relationships[k].from) /\ IsEntityName(Relationships[k].to)

\* the position of relationship k among those with both endpoints present
Rank(k) == Cardinality({m \in 1..k : Endpoints(m)})

\* the lines a diagram has before the block of entity i; a block has the
\* entity's field lines and extra more
RECURSIVE LinesBefore(_, _, _)
LinesBefore(i, header, extra) ==
  IF i = 1 THEN header
  ELSE LinesBefore(i - 1, header, extra) + Len(Entities[i - 1].fields.items) + extra

\* the Mermaid / PlantUML line of field j of entity i
MermaidFieldLine(i, j) == erdDiagram.value.mermaid[LinesBefore(i, 1, 2) + 1 + j]

PlantUMLFieldLine(i, j) == erdDiagram.value.plantUML[LinesBefore(i, 1, 2) + 1 + j]

\* C3: a relationship whose from or to names no entity of the model leaves
\* nothing in any output: no Mermaid line, no PlantUML line, no entry in the
\* plain-text relationship list, no OpenAPI relationship path; and generation
\* completes without error.
C3_UnresolvedContributeNothing ==
  /\ (pc = "done" /\ parsedData.kind = "ok") => response.status = 200
  /\ apiEndpoints.kind = "ok" =>
       \A p \in DOMAIN apiEndpoints.value.openApiSpec.paths :
         LET key == apiEndpoints.value.openApiSpec.paths[p][1]
         IN \/ \E i \in DOMAIN Entities :
                 key \in {"/" \o Entities[i].tableName,
                          "/" \o Entities[i].tableName \o "/{id}"}
            \/ \E k \in DOMAIN Relationships :
                 /\ Endpoints(k)
                 /\ \E i, j \in DOMAIN Entities :
                      /\ Entities[i].name = Relationships[k].from
                      /\ Entities[j].name = Relationships[k].to
                      /\ key = "/" \o Entities[i].tableName \o "/{id}/"
                                   \o Entities[j].tableName
  /\ erdDiagram.kind = "ok" =>
       /\ Len(RelationshipLines(erdDiagram.value.mermaid)) = Rank(Len(Relationships))
       /\ Len(RelationshipLines(erdDiagram.value.plantUML)) = Rank(Len(Relationships))
       /\ \A l \in DOMAIN RelationshipLines(erdDiagram.value.textual) :
            /\ IsEntityName(RelationshipLines(erdDiagram.value.textual)[l].from)
            /\ IsEntityName(RelationshipLines(erdDiagram.value.textual)[l].to)

\* C4: a field whose type token, lower-cased, is outside the vocabulary
\* (constructor included) is emitted with the fallback type: "string" in the
\* JSON Schema and the OpenAPI component, "varchar" in Mermaid, "VARCHAR" in
\* PlantUML.
C4_UnknownTypeFallsBack ==
  parsedData.kind = "ok" =>
    \A i \in DOMAIN Entities : \A j \in DOMAIN Entities[i].fields.items :
      LET field == Entities[i].fields.items[j]
      IN toLowerCase(field.type) \notin VocabularyTokens =>
           /\ jsonSchema.kind = "ok" =>
                ObjGet(ObjGet(jsonSchema.value.definitions, Entities[i].name).properties,
                       field.name).type = "string"
           /\ apiEndpoints.kind = "ok" =>
                ObjGet(ObjGet(apiEndpoints.value.openApiSpec.components.schemas,
                              Entities[i].name).properties,
                       field.name).type = "string"
           /\ erdDiagram.kind = "ok" =>
                /\ MermaidFieldLine(i, j).kind = "field"
                /\ MermaidFieldLine(i, j).name = field.name
                /\ MermaidFieldLine(i, j).type = "varchar"
                /\ PlantUMLFieldLine(i, j).kind = "field"
                /\ PlantUMLFieldLine(i, j).name = field.name
                /\ PlantUMLFieldLine(i, j).type = "VARCHAR"

\* C5: a relationship whose type is none of the four recognized values is
\* rendered as oneToMany: Mermaid and PlantUML symbol "||--o{", plain-text
\* verb "has many", class-diagram cardinality 1 --> "*".
C5_UnknownRelTypeAsOneToMany ==
  parsedData.kind = "ok" =>
    \A k \in DOMAIN Relationships :
      Relationships[k].type \notin RecognizedRelTypes =>
        /\ (erdDiagram.kind = "ok" /\ Endpoints(k)) =>
             /\ RelationshipLines(erdDiagram.value.mermaid)[Rank(k)].symbol = "||--o{"
             /\ RelationshipLines(erdDiagram.value.plantUML)[Rank(k)].symbol = "||--o{"
        /\ erdDiagram.kind = "ok" =>
             RelationshipLines(erdDiagram.value.textual)[k].verb = "has many"
        /\ alternativeDiagrams.kind = "ok" =>
             RelationshipLines(alternativeDiagrams.value.detailed)[k].cardinality
               = "1 --> \"*\""

\* the relationship symbols the two diagram notations share
C6_SymbolTable ==
  [oneToOne |-> "||--||", oneToMany |-> "||--o{", manyToOne |-> "o{--||",
   manyToMany |-> "o{--o{"]

\* C6: for every relationship type value, recognized or not, the Mermaid and
\* the PlantUML rendering of a relationship carry the same symbol; for the
\* four recognized values it is the symbol of the table.
C6_SymbolsAgree ==
  erdDiagram.kind = "ok" =>
    \A k \in DOMAIN Relationships :
      Endpoints(k) =>
        LET mermaid == RelationshipLines(erdDiagram.value.mermaid)[Rank(k)].symbol
            plantUML == RelationshipLines(erdDiagram.value.plantUML)[Rank(k)].symbol
        IN /\ mermaid = plantUML
           /\ Relationships[k].type \in RecognizedRelTypes =>
                mermaid = C6_SymbolTable[Relationships[k].type]

\* diagrams that render a many-to-one relationship between two entities
C6_Witness ==
  /\ erdDiagram.kind = "ok"
  /\ \E k \in DOMAIN Relationships :
       /\ Endpoints(k)
       /\ Relationships[k].type = "manyToOne"
       /\ RelationshipLines(erdDiagram.value.plantUML)[Rank(k)].symbol = "o{--||"


\* the model with the type of relationship k changed to type
WithRelType(k, type) ==
  [parsedData.value.data EXCEPT
     !.relationships = Arr([Relationships EXCEPT ![k].type = type])]

\* the diagrams of the model with the type of relationship k changed
Regenerated(k, type) == generateErdDiagram(WithRelType(k, type), <<0, 0>>).value

MermaidSymbolChanges(k, type) ==
  RelationshipLines(erdDiagram.value.mermaid)[Rank(k)].symbol
    # RelationshipLines(Regenerated(k, type).mermaid)[Rank(k)].symbol

PlantUMLSymbolChanges(k, type) ==
  RelationshipLines(erdDiagram.value.plantUML)[Rank(k)].symbol
    # RelationshipLines(Regenerated(k, type).plantUML)[Rank(k)].symbol

VerbChanges(k, type) ==
  RelationshipLines(erdDiagram.value.textual)[k].verb
    # RelationshipLines(Regenerated(k, type).textual)[k].verb

\* C7 as the specification states it: changing the type of one resolvable
\* relationship from one recognized value to another changes the Mermaid
\* symbol, the PlantUML symbol and the plain-text verb, all three.
C7_AllRenderingsChange ==
  erdDiagram.kind = "ok" =>
    \A k \in DOMAIN Relationships :
      (Endpoints(k) /\ Relationships[k].type \in RecognizedRelTypes) =>
        \A type \in RecognizedRelTypes \ {Relationships[k].type} :
          /\ MermaidSymbolChanges(k, type)
          /\ PlantUMLSymbolChanges(k, type)
          /\ VerbChanges(k, type)

\* C7: changing the type of one resolvable relationship from one recognized
\* value to another changes the Mermaid symbol and the PlantUML symbol, and it
\* changes the plain-text verb unless the two values are oneToMany and
\* manyToMany, which share the verb "has many".
C7_SymbolsChangeVerbMostly ==
  erdDiagram.kind = "ok" =>
    \A k \in DOMAIN Relationships :
      (Endpoints(k) /\ Relationships[k].type \in RecognizedRelTypes) =>
        \A type \in RecognizedRelTypes \ {Relationships[k].type} :
          /\ MermaidSymbolChanges(k, type)
          /\ PlantUMLSymbolChanges(k, type)
          /\ VerbChanges(k, type)
               <=> {Relationships[k].type, type} # {"oneToMany", "manyToMany"}

\* diagrams that render a one-to-many relationship between two entities
C7_Witness ==
  /\ erdDiagram.kind = "ok"
  /\ \E k \in DOMAIN Relationships :
       /\ Endpoints(k)
       /\ Relationships[k].type = "oneToMany"
       /\ RelationshipLines(erdDiagram.value.textual)[k].verb = "has many"
       /\ RelationshipLines(erdDiagram.value.mermaid)[Rank(k)].symbol = "||--o{"

\* C8: for every field whose type token, lower-cased, is in the vocabulary, the
\* OpenAPI component property has the type and the format of the JSON Schema
\* property of the same field.
C8_OpenApiMatchesJsonSchema ==
  (jsonSchema.kind = "ok" /\ apiEndpoints.kind = "ok") =>
    \A i \in DOMAIN Entities : \A j \in DOMAIN Entities[i].fields.items :
      LET field == Entities[i].fields.items[j]
          json == ObjGet(ObjGet(jsonSchema.value.definitions,
                                Entities[i].name).properties, field.name)
          openApi == ObjGet(ObjGet(apiEndpoints.value.openApiSpec.components.schemas,
                                   Entities[i].name).properties, field.name)
      IN toLowerCase(field.type) \in VocabularyTokens =>
           /\ openApi.type = json.type
           /\ openApi.format = json.format


\* what a masked timestamp reads
Masked == "<timestamp>"

\* the JSON Schema with metadata.generatedAt masked
MaskJsonSchema(schema) == [schema EXCEPT !.metadata.generatedAt = Masked]

\* the diagram bundle with metadata.generatedAt and the 'Generated:' line masked
MaskErd(erd) ==
  [erd EXCEPT !.metadata.generatedAt = Masked,
              !.textual = [i \in DOMAIN @ |->
                             IF @[i].kind = "generated"
                             THEN [kind |-> "generated", text |-> Masked]
                             ELSE @[i]]]

\* the API result with summary.generatedAt masked
MaskGeneratedAt(api) == [api EXCEPT !.summary.generatedAt = Masked]

\* the entity an output keyed by entity name was last written for
LastEntity(name) ==
  Entities[CHOOSE i \in DOMAIN Entities :
             /\ Entities[i].name = name
             /\ \A j \in (i + 1)..Len(Entities) : Entities[j].name # name]

\* the names under which an example of the entity holds a date or datetime value
DateKeys(entity) ==
  {entity.fields.items[j].name : j \in
     {j \in DOMAIN entity.fields.items :
        /\ toLowerCase(entity.fields.items[j].type) \in {"date", "datetime"}
        /\ \A m \in (j + 1)..Len(entity.fields.items) :
             entity.fields.items[m].name # entity.fields.items[j].name}}

\* an example object with the values of the date and datetime fields masked
MaskExample(example, entity) ==
  [i \in DOMAIN example |->
     IF example[i][1] \in DateKeys(entity)
     THEN <<example[i][1], <<"string", Masked>>>>
     ELSE example[i]]

\* components.schemas with the date and datetime example values masked
MaskSchemas(schemas) ==
  [i \in DOMAIN schemas |->
     <<schemas[i][1],
       [schemas[i][2] EXCEPT
          !.example = MaskExample(schemas[i][2].example, LastEntity(schemas[i][1]))]>>]

\* the snippets of one language with the create payloads masked likewise
MaskSnippets(snippets) ==
  [i \in DOMAIN snippets |->
     <<snippets[i][1],
       [snippets[i][2] EXCEPT
          !.create.payload = MaskExample(snippets[i][2].create.payload,
                                         LastEntity(snippets[i][1]))]>>]

\* the API result with generatedAt and the date and datetime example values,
\* of the component schemas and of the create snippets, masked
MaskApi(api) ==
  [api EXCEPT
     !.summary.generatedAt = Masked,
     !.openApiSpec.components.schemas = MaskSchemas(api.openApiSpec.components.schemas),
     !.codeExamples =
        [language \in DOMAIN api.codeExamples |->
           MaskSnippets(api.codeExamples[language])]]

\* the model with its relationships replaced
WithRelationships(relationships) ==
  [parsedData.value.data EXCEPT !.relationships = relationships]

NoRelationshipLine(lines) ==
  \A i \in DOMAIN lines :
    /\ lines[i].kind # "relationship"
    /\ lines[i].kind = "section" =>
         lines[i].text \notin {"%% Relationships", "Relationships:"}

\* C9: when the model's relationships is omitted, null or the empty list, each
\* generator returns what it returns for every one of the three (timestamps
\* aside); the JSON Schema has relationships = [] and totalRelationships = 0,
\* the ERD metadata has totalRelationships = 0, the API paths are the CRUD
\* paths only and no diagram has a relationship section or line.
C9_MissingRelationshipsAsEmpty ==
  (parsedData.kind = "ok"
     /\ parsedData.value.data.relationships \in {Undefined, Null, Arr(<<>>)}) =>
    /\ jsonSchema.kind = "ok" =>
         /\ \A r \in {Undefined, Null, Arr(<<>>)} :
              MaskJsonSchema(jsonSchema.value)
                = MaskJsonSchema(generateJsonSchema(WithRelationships(r), 0).value)
         /\ jsonSchema.value.relationships = <<>>
         /\ jsonSchema.value.metadata.totalRelationships = 0
    /\ apiEndpoints.kind = "ok" =>
         /\ \A r \in {Undefined, Null, Arr(<<>>)} :
              MaskApi(apiEndpoints.value)
                = MaskApi(generateApiEndpoints(WithRelationships(r), <<0, 0, 0>>).value)
         /\ \A p \in DOMAIN apiEndpoints.value.openApiSpec.paths :
              \E i \in DOMAIN Entities :
                apiEndpoints.value.openApiSpec.paths[p][1]
                  \in {"/" \o Entities[i].tableName,
                       "/" \o Entities[i].tableName \o "/{id}"}
    /\ erdDiagram.kind = "ok" =>
         /\ \A r \in {Undefined, Null, Arr(<<>>)} :
              MaskErd(erdDiagram.value)
                = MaskErd(generateErdDiagram(WithRelationships(r), <<0, 0>>).value)
         /\ erdDiagram.value.metadata.totalRelationships = 0
         /\ NoRelationshipLine(erdDiagram.value.mermaid)
         /\ NoRelationshipLine(erdDiagram.value.plantUML)
         /\ NoRelationshipLine(erdDiagram.value.textual)

\* all three outputs generated from a two-entity model whose relationships is null
C9_Witness ==
  /\ erdDiagram.kind = "ok"
  /\ apiEndpoints.kind = "ok"
  /\ jsonSchema.kind = "ok"
  /\ parsedData.value.data.relationships = Null
  /\ Len(Entities) = 2

\* C10 as the specification states it: generating again from the same model
\* at any clock time gives the same JSON Schema, API result and diagram
\* bundle once the generatedAt fields and the 'Generated:' line are masked.
C10_OnlyGeneratedAtDiffers ==
  \A t \in 0..MaxClock :
    /\ jsonSchema.kind = "ok" =>
         MaskJsonSchema(jsonSchema.value)
           = MaskJsonSchema(generateJsonSchema(parsedData.value.data, t).value)
    /\ apiEndpoints.kind = "ok" =>
         MaskGeneratedAt(apiEndpoints.value)
           = MaskGeneratedAt(generateApiEndpoints(parsedData.value.data,
                                                  <<t, t, t>>).value)
    /\ erdDiagram.kind = "ok" =>
         MaskErd(erdDiagram.value)
           = MaskErd(generateErdDiagram(parsedData.value.data, <<t, t>>).value)

\* C10: generating again from the same model at any clock time gives the same
\* JSON Schema, API result and diagram bundle once the generatedAt fields, the
\* 'Generated:' line and the example values of date and datetime fields (in
\* the component examples and in the create snippets) are masked.
C10_OnlyTimestampsDiffer ==
  \A t \in 0..MaxClock :
    /\ jsonSchema.kind = "ok" =>
         MaskJsonSchema(jsonSchema.value)
           = MaskJsonSchema(generateJsonSchema(parsedData.value.data, t).value)
    /\ apiEndpoints.kind = "ok" =>
         MaskApi(apiEndpoints.value)
           = MaskApi(generateApiEndpoints(parsedData.value.data, <<t, t, t>>).value)
    /\ erdDiagram.kind = "ok" =>
         MaskErd(erdDiagram.value)
           = MaskErd(generateErdDiagram(parsedData.value.data, <<t, t>>).value)

\* all three outputs generated after the clock moved, from a model with a
\* date or datetime field
C10_Witness ==
  /\ erdDiagram.kind = "ok"
  /\ apiEndpoints.kind = "ok"
  /\ jsonSchema.kind = "ok"
  /\ jsonSchema.value.metadata.generatedAt # IsoString(0)
  /\ \E i \in DOMAIN Entities : DateKeys(Entities[i]) # {}

\* the number of lines of one kind in a converted text
CountKind(lines, kind) == Cardinality({i \in DOMAIN lines : lines[i].kind = kind})

\* the lower-cased token of a string format
FormatToken(format) ==
  IF format[2] \in DOMAIN FormatLowerCaseTable
  THEN FormatLowerCaseTable[format[2]] ELSE format[2]

\* the document was generated from the caller's model and converted to text
ConvertedTo(token) ==
  /\ model # NoResult
  /\ conversion # NoResult
  /\ conversion.format[1] = "string"
  /\ FormatToken(conversion.format) = token
  /\ conversion.result.kind = "ok"

\* C11: the SQL text converted from the JSON Schema generated for a model of N
\* entities has exactly N 'CREATE TABLE' statements, and the TypeScript text
\* exactly N 'export interface' declarations.
C11_OneBlockPerEntity ==
  /\ ConvertedTo("sql") =>
       CountKind(conversion.result.value, "table") = Len(model.entities.items)
  /\ ConvertedTo("typescript") =>
       CountKind(conversion.result.value, "interface") = Len(model.entities.items)


\* the paths object of the generated OpenAPI document
Paths == apiEndpoints.value.openApiSpec.paths

\* C12: for a model of N entities and no relationships the paths object has
\* exactly 2N keys, '/<tableName>' with exactly GET and POST and
\* '/<tableName>/{id}' with exactly GET, PUT and DELETE for each entity, and
\* summary.totalEndpoints is the number of path keys.
C12_TwoPathsPerEntity ==
  (apiEndpoints.kind = "ok" /\ Relationships = <<>>) =>
    /\ Len(Paths) = 2 * Len(Entities)
    /\ \A i \in DOMAIN Entities :
         /\ ObjHas(Paths, "/" \o Entities[i].tableName)
         /\ DOMAIN ObjGet(Paths, "/" \o Entities[i].tableName) = {"get", "post"}
         /\ ObjHas(Paths, "/" \o Entities[i].tableName \o "/{id}")
         /\ DOMAIN ObjGet(Paths, "/" \o Entities[i].tableName \o "/{id}")
              = {"get", "put", "delete"}
    /\ apiEndpoints.value.summary.totalEndpoints = Len(Paths)


\* the path keys of the CRUD step
CrudKeys ==
  {"/" \o Entities[i].tableName : i \in DOMAIN Entities}
  \cup {"/" \o Entities[i].tableName \o "/{id}" : i \in DOMAIN Entities}

\* the relationships whose path is key and whose two entities are found
WritersOf(key) ==
  {n \in DOMAIN Relationships :
     /\ Resolves(Entities, Relationships[n])
     /\ RelationshipPath(Entities, Relationships[n]) = key}

\* C13: the path keys beside the CRUD keys are exactly the paths
\* '/<fromTableName>/{id}/<toTableName>' of the relationships whose two
\* entities are found; each carries only GET, tagged with the 'from' entity of
\* the first relationship of that path; a relationship whose path is a CRUD
\* key leaves the CRUD path item as it was.
C13_RelationshipPathsFirstWriterWins ==
  apiEndpoints.kind = "ok" =>
    /\ \A n \in DOMAIN Relationships :
         Resolves(Entities, Relationships[n]) =>
           ObjHas(Paths, RelationshipPath(Entities, Relationships[n]))
    /\ \A k \in DOMAIN Paths :
         IF Paths[k][1] \in CrudKeys
         THEN DOMAIN Paths[k][2] \in {{"get", "post"}, {"get", "put", "delete"}}
         ELSE /\ WritersOf(Paths[k][1]) # {}
              /\ DOMAIN Paths[k][2] = {"get"}
              /\ \E n \in WritersOf(Paths[k][1]) :
                   /\ \A j \in WritersOf(Paths[k][1]) : n <= j
                   /\ Paths[k][2].get.tags = <<Relationships[n].from>>

\* C13 witness: an OpenAPI document was generated from a model with two
\* relationships of one path and different 'from' entities.
C13_Witness ==
  /\ apiEndpoints.kind = "ok"
  /\ \E key \in {Paths[k][1] : k \in DOMAIN Paths} \ CrudKeys :
       \E n, j \in WritersOf(key) : Relationships[n].from # Relationships[j].from


\* the text before the colon of each generator's failure message
FailurePrefix ==
  [schema |-> "Schema generation failed", api |-> "API generation failed",
   erd |-> "ERD generation failed"]

\* the TypeError messages of the model
FaultTexts ==
  {"Cannot destructure property 'entities' of 'parsedData' as it is null.",
   "Cannot destructure property 'entities' of 'parsedData' as it is undefined.",
   "Cannot read properties of undefined (reading 'forEach')",
   "Cannot read properties of null (reading 'forEach')",
   "Cannot read properties of undefined (reading 'toLowerCase')",
   "Cannot read properties of undefined (reading 'toUpperCase')"}

\* C14: called on a value that is not of the Entity shape, each of the three
\* generators ends with a single failure whose message names the generator
\* and returns no artifact.
C14_UnshapedInputFails ==
  \A i \in DOMAIN calls :
    calls[i].input \in UnshapedModels =>
      /\ calls[i].result.kind = "error"
      /\ calls[i].result.message \in
           {FailurePrefix[calls[i].generator] \o ": " \o t : t \in FaultTexts}


\* C15: a conversion that cannot be carried out (a null definition, a format
\* that is no string) ends with a failure of the converter's own, never with
\* the raw TypeError of the property access that broke.
C15_ConversionFailureIdentified ==
  (conversion # NoResult /\ conversion.result.kind = "error") =>
    conversion.result.name # "TypeError"


\* something inside the try block of the last validateSchema call threw: one
\* of the Ajv calls, or the property read on a null or undefined schema
ValidationFaulted ==
  \/ ~ validation.ajv.getSchema /\ validation.ajv.addMetaSchema = "throws"
  \/ validation.ajv.validateSchema = "throws"
  \/ document \in {Null, Undefined}

\* C16: validateSchema never throws: whatever the schema and whatever Ajv
\* does, it returns an object with a boolean 'valid', a list 'errors' and an
\* object 'summary'; after an internal fault 'valid' is false and 'errors' is
\* a single {message}.
C16_ValidateSchemaNeverThrows ==
  validation # NoResult =>
    /\ DOMAIN validation.result = {"valid", "errors", "summary"}
    /\ validation.result.valid \in BOOLEAN
    /\ IsArray(validation.result.errors)
    /\ HasKey(validation.result.summary, "validatedAt")
    /\ ValidationFaulted =>
         /\ validation.result.valid = FALSE
         /\ Len(validation.result.errors.items) = 1
         /\ DOMAIN validation.result.errors.items[1] = {"message"}

\* C16 witness: validateSchema was called on a null schema while every Ajv
\* call returned, and answered valid: false.
C16_Witness ==
  /\ validation # NoResult
  /\ document = Null
  /\ validation.ajv.validateSchema = "true"
  /\ validation.ajv.addMetaSchema = "returns"
  /\ validation.result.valid = FALSE


\* the description of the request is missing or blank
BlankDescription ==
  request.description = None \/ IsBlank(request.description[1])

\* the artifacts of the steps that ran, in step order
Artifacts == <<parsedData, jsonSchema, apiEndpoints, erdDiagram>>

\* what the response of a request says about the steps that ran
C17_ResponseMatchesSteps ==
  /\ pc = "done" <=> response # NoResult
  /\ (pc # "idle" /\ BlankDescription) => response # NoResult /\ response.status = 400
  \* a step ran only after every step before it had succeeded
  /\ \A i \in 2..4 : Artifacts[i] # NoResult => Artifacts[i - 1] # NoResult
  /\ \A i \in 1..4 : Artifacts[i] # NoResult => Artifacts[i].kind = "ok"
  /\ response # NoResult =>
       /\ response.status \in {200, 400, 500, 503}
       /\ response.status = 400 =>
            BlankDescription /\ \A i \in 1..4 : Artifacts[i] = NoResult
       /\ response.status = 200 => \A i \in 1..4 : Artifacts[i] # NoResult
       /\ response.status \in {500, 503} => erdDiagram = NoResult
       /\ response.status = 503 <=>
            (~ BlankDescription /\ request.ai.kind = "overloaded")

\* C17: the handler of POST /generate answers each request exactly once: 400
\* for a missing or blank description, with no parser or generator run; 200
\* only after parse, JSON Schema, OpenAPI and ERD ran in that order; 503 (AI
\* overloaded) or 500 as soon as a step fails, no later step being run.
C17_ExactlyOneResponse ==
  /\ []C17_ResponseMatchesSteps
  /\ [][response # NoResult =>
          /\ response' = response
          /\ Artifacts' = Artifacts]_vars
  /\ (pc # "idle") ~> (response # NoResult)

\* C17 witness: a request was answered 500 after the parser, the JSON Schema
\* generator and the OpenAPI generator had succeeded and the ERD generator
\* failed.
C17_Witness ==
  /\ response # NoResult
  /\ response.status = 500
  /\ apiEndpoints # NoResult
  /\ erdDiagram = NoResult


CreatePayload(language, name) ==
  ObjGet(apiEndpoints.value.codeExamples[language], name).create.payload

\* C19: in one result the payload of each 'create' snippet (javascript,
\* python, curl) is the very object that is the 'example' of the entity's
\* component schema, date and datetime fields included.
C19_SnippetPayloadIsSchemaExample ==
  apiEndpoints.kind = "ok" =>
    \A i \in DOMAIN Entities :
      \A language \in {"javascript", "python", "curl"} :
        CreatePayload(language, Entities[i].name)
          = ObjGet(apiEndpoints.value.openApiSpec.components.schemas,
                   Entities[i].name).example


\* the component schema of an entity in the generated OpenAPI document
ComponentSchema(name) ==
  ObjGet(apiEndpoints.value.openApiSpec.components.schemas, name)

\* the example value has the JSON type the property declares
ExampleHasDeclaredType(name, value, declared) ==
  CASE declared \in {"integer", "number"} ->
         value[1] = "number" /\ value[2] = (IF name = "id" THEN 1 ELSE 100)
    [] declared = "boolean" -> value[1] = "boolean"
    [] declared = "array" -> value[1] = "array"
    [] declared = "string" -> value[1] = "string"
    [] OTHER -> TRUE

\* C20: each value of a component schema's example has the JSON type its
\* property declares: a number for integer and number (1 for 'id', otherwise
\* 100), a boolean for boolean, an array for array, a string for string.
C20_ExampleMatchesDeclaredType ==
  apiEndpoints.kind = "ok" =>
    \A i \in DOMAIN Entities :
      \A k \in DOMAIN ComponentSchema(Entities[i].name).properties :
        ExampleHasDeclaredType(
          ComponentSchema(Entities[i].name).properties[k][1],
          ObjGet(ComponentSchema(Entities[i].name).example,
                 ComponentSchema(Entities[i].name).properties[k][1]),
          ComponentSchema(Entities[i].name).properties[k][2].type)


\* the entities of the caller's model whose definition is in the document:
\* the last entity of each name
Surviving ==
  {i \in DOMAIN model.entities.items :
     \A k \in (i + 1)..Len(model.entities.items) :
       model.entities.items[k].name # model.entities.items[i].name}

\* the first line of the SQL block of an entity
SqlHeader(entity) ==
  "CREATE TABLE " \o (IF HasKey(entity, "tableName")
                      THEN entity.tableName ELSE entity.name \o "s")

\* a column line renders the field: the flags of the field, and the text made
\* of name, type and the flags in the order NOT NULL, PRIMARY KEY, AUTO_INCREMENT
ColumnRenders(column, field) ==
  /\ column.kind = "column"
  /\ column.name = field.name
  /\ column.notNull = field.required
  /\ column.primaryKey = (field.constraints.primary = Some(TRUE))
  /\ column.autoIncrement = (field.constraints.autoIncrement = Some(TRUE))
  /\ column.text = field.name \o " " \o column.type
                     \o (IF field.required THEN " NOT NULL" ELSE "")
                     \o (IF field.constraints.primary = Some(TRUE)
                         THEN " PRIMARY KEY" ELSE "")
                     \o (IF field.constraints.autoIncrement = Some(TRUE)
                         THEN " AUTO_INCREMENT" ELSE "")
  /\ field = IdField => column.text = "id INT NOT NULL PRIMARY KEY AUTO_INCREMENT"

\* C21: in the SQL text converted from the JSON Schema generated for a model,
\* the j-th column of an entity's table renders the entity's j-th field: it
\* carries ' NOT NULL' exactly when the field is required, ' PRIMARY KEY'
\* exactly when constraints.primary is true and ' AUTO_INCREMENT' exactly when
\* constraints.autoIncrement is true, in that order; the id field the
\* normalizer writes is 'id INT NOT NULL PRIMARY KEY AUTO_INCREMENT'.
C21_SqlFlagsRoundTrip ==
  ConvertedTo("sql") =>
    LET lines == conversion.result.value
    IN /\ \A i \in Surviving :
            \E t \in DOMAIN lines :
              /\ lines[t].kind = "table"
              /\ lines[t].text = SqlHeader(model.entities.items[i])
              /\ \A j \in DOMAIN model.entities.items[i].fields.items :
                   /\ t + j \in DOMAIN lines
                   /\ ColumnRenders(lines[t + j], model.entities.items[i].fields.items[j])
              /\ lines[t + Len(model.entities.items[i].fields.items) + 1].kind = "end"
       /\ CountKind(lines, "column") =
            Len(lines) - 1 - 2 * CountKind(lines, "table")

\* C21 witness: a model was converted to SQL whose fields show a key that is
\* not required, a required field that is no key, and the normalizer's id.
C21_Witness ==
  /\ ConvertedTo("sql")
  /\ \E k \in DOMAIN conversion.result.value :
       /\ conversion.result.value[k].kind = "column"
       /\ conversion.result.value[k].text = "code VARCHAR(255) PRIMARY KEY"
  /\ \E k \in DOMAIN conversion.result.value :
       /\ conversion.result.value[k].kind = "column"
       /\ conversion.result.value[k].text = "rank INT NOT NULL AUTO_INCREMENT"


\* the names of the fields of an entity, in field order
FieldNames(entity) ==
  [j \in DOMAIN entity.fields.items |-> entity.fields.items[j].name]

\* the names of the fields with required true, in field order
RequiredFieldNames(entity) ==
  FieldNames([entity EXCEPT !.fields.items =
                SelectSeq(entity.fields.items, LAMBDA f : f.required)])

\* the field names of the entity are unique within it, as the data model says
DistinctFieldNames(entity) ==
  \A j, k \in DOMAIN entity.fields.items :
    entity.fields.items[j].name = entity.fields.items[k].name => j = k

WithTag(text, applies, tag) ==
  IF ~ applies THEN text
  ELSE IF text = "" THEN tag
  ELSE text \o ", " \o tag

\* the tags of a field in the order PK, UK, NOT NULL, AUTO_INCREMENT
ConstraintTags(field) ==
  WithTag(WithTag(WithTag(WithTag("", field.constraints.primary = Some(TRUE), "PK"),
                          field.constraints.unique = Some(TRUE), "UK"),
                  field.required, "NOT NULL"),
          field.constraints.autoIncrement = Some(TRUE), "AUTO_INCREMENT")

\* C23: the Mermaid line of every field carries its tags in the order PK, UK,
\* NOT NULL, AUTO_INCREMENT, joined with ', ' inside one quoted string, and no
\* quoted string at all when no tag applies.
C23_MermaidConstraintTags ==
  erdDiagram.kind = "ok" =>
    \A i \in DOMAIN Entities :
      \A j \in DOMAIN Entities[i].fields.items :
        MermaidFieldLine(i, j).constraint =
          (IF ConstraintTags(Entities[i].fields.items[j]) = "" THEN ""
           ELSE " \"" \o ConstraintTags(Entities[i].fields.items[j]) \o "\"")

\* C23 witness: a diagram was generated in which a required field with only
\* a 'minimum' constraint is annotated "NOT NULL", the id field carries three
\* tags and a field carries none.
C23_Witness ==
  /\ erdDiagram.kind = "ok"
  /\ \E i \in DOMAIN Entities :
       /\ \E j \in DOMAIN Entities[i].fields.items :
            /\ Entities[i].fields.items[j].required
            /\ Entities[i].fields.items[j].constraints
                 = [NoConstraints EXCEPT !.minimum = Some(0)]
            /\ MermaidFieldLine(i, j).constraint = " \"NOT NULL\""
       /\ \E j \in DOMAIN Entities[i].fields.items :
            MermaidFieldLine(i, j).constraint = ""
  /\ \E i \in DOMAIN Entities :
       \E j \in DOMAIN Entities[i].fields.items :
         MermaidFieldLine(i, j).constraint = " \"PK, NOT NULL, AUTO_INCREMENT\""


\* the label a relationship line must carry: the description when there is
\* one, otherwise the type token
ExpectedLabel(rel) ==
  IF rel.description # None /\ rel.description[1] # "" THEN rel.description[1]
  ELSE rel.type

\* C24: every relationship whose two entities are found yields exactly one
\* Mermaid line '<FROM_TABLE> <symbol> <TO_TABLE> : "<label>"' with the table
\* names upper-cased and exactly one PlantUML line '<from> <symbol> <to> :
\* <label>', in relationship-list order; the label is the description when
\* present and otherwise the type token; a oneToMany relationship without
\* description from users to orders is 'USERS ||--o{ ORDERS : "oneToMany"'.
C24_OneLinePerRelationship ==
  erdDiagram.kind = "ok" =>
    LET mermaid == RelationshipLines(erdDiagram.value.mermaid)
        plantUML == RelationshipLines(erdDiagram.value.plantUML)
        resolvable == {k \in DOMAIN Relationships : Endpoints(k)}
    IN /\ Len(mermaid) = Cardinality(resolvable)
       /\ Len(plantUML) = Cardinality(resolvable)
       /\ \A k \in resolvable :
            LET rel == Relationships[k]
                from == Entities[FindEntity(Entities, rel.from)]
                to == Entities[FindEntity(Entities, rel.to)]
            IN /\ mermaid[Rank(k)].from = toUpperCase(from.tableName)
               /\ mermaid[Rank(k)].to = toUpperCase(to.tableName)
               /\ mermaid[Rank(k)].label = ExpectedLabel(rel)
               /\ plantUML[Rank(k)].from = rel.from
               /\ plantUML[Rank(k)].to = rel.to
               /\ plantUML[Rank(k)].label = ExpectedLabel(rel)
               /\ (rel.type = "oneToMany" /\ rel.description = None
                   /\ from.tableName = "users" /\ to.tableName = "orders") =>
                    mermaid[Rank(k)] = [kind |-> "relationship", from |-> "USERS",
                                        symbol |-> "||--o{", to |-> "ORDERS",
                                        label |-> "oneToMany"]

\* C24 witness: a diagram was generated for two relationships whose entities
\* are found, the first with a description and the second without.
C24_Witness ==
  /\ erdDiagram.kind = "ok"
  /\ Len(Relationships) = 2
  /\ Endpoints(1) /\ Endpoints(2)
  /\ Relationships[1].description # None
  /\ Relationships[2].description = None


\* C25: the Mermaid text has the '%% Relationships' header exactly when at
\* least one relationship line is emitted under it.
C25_SectionOnlyWithLines ==
  erdDiagram.kind = "ok" =>
    ((\E k \in DOMAIN erdDiagram.value.mermaid :
        erdDiagram.value.mermaid[k].kind = "section")
     <=> Len(RelationshipLines(erdDiagram.value.mermaid)) > 0)



\* the calls that have entered retryWithBackoff
Entered == {c \in DOMAIN call : call[c].pc # "idle"}

\* C26: a call of retryWithBackoff makes at most maxRetries + 1 attempts of
\* the operation, returns the result of the attempt that succeeded or throws
\* the last error, and waits to attempt again only after a failure that
\* detectServerSleep classifies as sleep-related, on whichever attempt the
\* failure occurred.
C26_RetryOnlyAfterSleepFailure ==
  \A c \in Entered :
    /\ call[c].attempt + 1 <= call[c].maxRetries + 1
    /\ call[c].pc = "returned" =>
         call[c].result = [kind |-> "ok", data |-> call[c].attempt]
    /\ call[c].pc = "thrown" => call[c].result = call[c].lastError
    /\ call[c].pc = "delaying" => detectServerSleep(call[c].lastError)



\* C27: in every reachable state of the server-status tracker isAwake and
\* isWakingUp are not both true, and every step that turns isAwake from
\* false to true leaves consecutiveFailures at 0.
C27_StatusConsistent ==
  /\ [](~(serverStatus.isAwake /\ serverStatus.isWakingUp))
  /\ [][(~serverStatus.isAwake /\ serverStatus'.isAwake)
          => serverStatus'.consecutiveFailures = 0]_vars

\* the server was found sleeping by one call (the interval was set) while
\* another call had failed, and has been marked awake again
C27_Witness ==
  /\ healthCheckInterval # None
  /\ serverStatus.isAwake
  /\ serverStatus.consecutiveFailures = 0
  /\ \E c \in Entered : call[c].lastError # NoResult



\* C28: whenever a call made through retryWithBackoff succeeds, that is
\* returns the result of a successful response, healthCheckInterval is null
\* afterwards.
C28_SuccessStopsHealthCheck ==
  [][\A c \in Callers :
       (call[c].pc = "resolved" /\ call'[c].pc = "returned")
         => healthCheckInterval' = None]_vars



\* C29: the health endpoint reports 'STARTING' while uptime is below 30
\* seconds, 'IDLE' when uptime is at least 30 seconds and more than 5
\* minutes have passed since the previous request handled by the health
\* router, and 'ACTIVE' otherwise.
C29_HealthStateByIdleTime ==
  healthReply.kind = "health" =>
    healthReply.state =
      (IF healthReply.uptime < StartingWindow THEN "STARTING"
       ELSE IF healthReply.sincePrevious > IdleWindow THEN "IDLE"
       ELSE "ACTIVE")



\* is the value a non-empty array of entities no generator faults on
WellFormedEntities(value) ==
  /\ value \notin {Null, Undefined}
  /\ HasKey(value, "items")
  /\ Len(value.items) > 0
  /\ ErdFault([entities |-> value, relationships |-> Undefined]) = None

\* C30: a standalone handler answers 400 without calling its generator when
\* the body has no 'entities', and answers with success and the generated
\* artifact when body.entities is a non-empty array of well-formed entities.
C30_StandaloneHandlers ==
  reply.kind = "sent" =>
    /\ body.entities = Undefined =>
         (reply.status = 400 /\ ~reply.generated)
    /\ WellFormedEntities(body.entities) =>
         (reply.status = 200 /\ reply.success /\ reply.artifact # NoResult)

====
